---- MODULE Spec2Model ----
(***************************************************************************)
(* Magpie Talk: the pacing engine (PacingEngine), the localStorage cache   *)
(* and acquisition layer (WikipediaService) and the controller that swaps  *)
(* content into a live session (UIController), modelled from src/app.js.   *)
(*                                                                         *)
(* Time is the value of Date.now() in milliseconds.  An article is         *)
(* represented by its title, the length of its text (chars), whether the   *)
(* text is nothing but white space (blank) and the number of syllables     *)
(* the parser produces for it (syls): these are the only properties of     *)
(* the text the cache, the acquisition layer, the controller and the       *)
(* engine look at.                                                         *)
(***************************************************************************)
EXTENDS Integers, Sequences, FiniteSets, Bags, TLC

\* ------------------------------------------------------------------------
\* Bounds of the model
\* ------------------------------------------------------------------------
\* Spec: the clock advances in small steps while now < lim.run
MaxRun == 500
\* Spec: calls of loadFeaturedArticle and of loadArticleByTitle
MaxDaily == 2
MaxNamed == 1
\* Spec: direct calls of the playback control surface
MaxOps == 2
\* SpecExpire: how much of its 7 days the cache entry of an earlier
\* opening of the page has left when the page is opened
ExpLeft == 500
\* SpecEngine: the same bounds for one session played on its own
EngMaxRun == 3000
EngMaxOps == 5
\* SpecEngine: syllable counts of the session
EngSizes == {1, 2, 3}
\* SpecCache: calls of loadFeaturedArticle and of loadArticleByTitle
CacheMaxDaily == 2
CacheMaxNamed == 1
\* SpecHit: calls of loadFeaturedArticle and of loadArticleByTitle
HitMaxDaily == 3
HitMaxNamed == 1
\* SpecMerge: the clock bound and the control calls
MrgMaxRun == 2000
MrgMaxOps == 3
\* SpecParse: the longest text handed to SyllableParser.parse
MaxText == 5
\* SpecNamed: calls of loadArticleByTitle
NamMaxNamed == 3
\* SpecWorker: requests made, waits, CLEAR_CACHE messages
SwMaxRequests == 3
SwMaxWaits == 2
SwMaxClears == 1
\* SpecPrefetch: the clock bound, calls of loadFeaturedArticle, control calls
PfMaxRun == 2500
PfMaxDaily == 2
PfMaxOps == 1
\* SpecFetch: the largest retry count of a fetchWithTimeout call
MaxRetries == 3
\* SpecLive: the bound of the free-running clock, the control calls
LiveMaxRun == 2000
LiveMaxOps == 4
\* SpecStorage: calls of loadFeaturedArticle and of loadArticleByTitle
StoMaxDaily == 2
StoMaxNamed == 1
\* SpecCross: the run, named acquisitions and control calls while a merge
\* is rendering
CrsMaxRun == 1500
CrsMaxNamed == 1
CrsMaxOps == 1

\* small clock step
ClockSteps == {500}
\* values of the speed control
Speeds == {500, 1000}
\* what the remote source may answer with: text length and syllable count.
\* Spec: abbreviated summaries, and pages 20% longer and more, just under
\* 20% longer, and shorter than the longer summary
Extracts == { [chars |-> 799, syls |-> 5, blank |-> FALSE],
              [chars |-> 800, syls |-> 150, blank |-> FALSE] }
Pages == { [chars |-> 900,  syls |-> 6, blank |-> FALSE],
           [chars |-> 5000, syls |-> 179, blank |-> FALSE],
           [chars |-> 5001, syls |-> 180, blank |-> FALSE] }
Names == {"Moon"}
\* SpecCache: summaries without text, of punctuation only and around the
\* completeness threshold, pages of white space only and with text, names
\* that differ in case only
CacheExtracts == { [chars |-> 0,   syls |-> 0, blank |-> TRUE],
                   [chars |-> 3,   syls |-> 0, blank |-> FALSE],
                   [chars |-> 799, syls |-> 5, blank |-> FALSE],
                   [chars |-> 800, syls |-> 150, blank |-> FALSE],
                   [chars |-> 801, syls |-> 150, blank |-> FALSE] }
CachePages == { [chars |-> 10,  syls |-> 0, blank |-> TRUE],
                [chars |-> 900, syls |-> 6, blank |-> FALSE] }
CacheNames == {"Moon", "moon"}
\* the local calendar of a run.  origin: the time that has passed since
\* local midnight when the page is opened, i.e. at now = 0; changes, shift:
\* on the day `changes` (days are counted from the day of the opening) the
\* clocks are put forward or back by `shift` ms, which makes that day
\* shorter or longer than 24 hours
PlainCalendar == [origin |-> 0, changes |-> 0, shift |-> 0]
\* SpecCache: the page is opened at midnight or at noon of a day of 24
\* hours, or at midnight of a day of 25 or of 23 hours
CacheCalendars == { PlainCalendar,
                    [origin |-> 43200000, changes |-> 0, shift |-> 0],
                    [origin |-> 0, changes |-> 0, shift |-> 3600000],
                    [origin |-> 0, changes |-> 0, shift |-> -3600000] }
\* SpecWorker: how long a wait may be: a moment, up to the 24 hours, up to
\* the 7 days and beyond them
SwWaits == {1, 86399999, 604799999, 604800001}
\* SpecPrefetch: an abbreviated and a complete summary, a page, and what
\* tomorrow's article may be called
PfExtracts == { [chars |-> 799, syls |-> 5, blank |-> FALSE],
               [chars |-> 801, syls |-> 6, blank |-> FALSE] }
PfPages == { [chars |-> 900, syls |-> 6, blank |-> FALSE] }
PfTitles == {"Moon", "Sun"}
\* what the feed answers for the day after in the specifications that do
\* not follow the prefetch through all its answers: a complete summary
Tomorrows == { [title |-> "Sun", chars |-> 801, syls |-> 6, blank |-> FALSE] }
\* SpecFetch: how long an attempt that is not aborted takes
Latencies == {100, 14999}
\* SpecNamed: an abbreviated summary, a page
NamExtracts == { [chars |-> 799, syls |-> 5, blank |-> FALSE] }
NamPages == { [chars |-> 900, syls |-> 6, blank |-> FALSE] }
\* SpecMerge: short summaries that play to their end, pages that are
\* merged over them
MrgExtracts == { [chars |-> 10, syls |-> 1, blank |-> FALSE],
                 [chars |-> 20, syls |-> 2, blank |-> FALSE] }
MrgPages == { [chars |-> 900, syls |-> 2, blank |-> FALSE],
              [chars |-> 901, syls |-> 3, blank |-> FALSE] }
\* SpecCross: an abbreviated summary, its page in the two sizes that
\* render in one go and in chunks, and a name that is not the featured
\* article's
CrsExtracts == { [chars |-> 799, syls |-> 5, blank |-> FALSE] }
CrsPages == { [chars |-> 900,  syls |-> 6, blank |-> FALSE],
              [chars |-> 5000, syls |-> 179, blank |-> FALSE] }
CrsNames == {"Sun"}
\* SpecStorage, SpecHit: an abbreviated and a complete summary; one page
StoExtracts == { [chars |-> 799, syls |-> 5, blank |-> FALSE],
                 [chars |-> 801, syls |-> 150, blank |-> FALSE] }
StoPages == { [chars |-> 900, syls |-> 6, blank |-> FALSE] }

\* ------------------------------------------------------------------------
\* Program constants
\* ------------------------------------------------------------------------
DailyTTL == 86400000
NamedTTL == 604800000
ExtractThreshold == 800
MergeThreshold == 20
CHUNK_SIZE == 150
DefaultSpeed == 1000
PrefetchDelay == 2000

NoTimer == -1

Min(a, b) == IF a < b THEN a ELSE b

\* title.toLowerCase() on the names of the model
ToLowerCase(s) == IF s = "Moon" THEN "moon" ELSE IF s = "Sun" THEN "sun" ELSE s

\* the title the remote source reports for the featured article and for
\* the page every name of the model resolves to
TfaTitle == "Moon"

\* blank: text.trim().length === 0, or no text at all
NoArt == [title |-> "", chars |-> 0, syls |-> 0, blank |-> TRUE]
Art(t, x) == [title |-> t, chars |-> x.chars, syls |-> x.syls,
             blank |-> x.blank]

\* `featured_${dateStr}`: the key of getFeaturedArticle for the calendar
\* date d, dates being counted in days from the date on which the page
\* was opened
FeaturedKeyOf(d) == <<"featured", d>>
ArticleKeyExact(title) == <<"article", title>>
ArticleKey(title) == <<"article", ToLowerCase(title)>>

\* ------------------------------------------------------------------------
\* WikipediaService cache (localStorage)
\* ------------------------------------------------------------------------
\* an entry: article, expiresAt; writtenAt and ttl record the write
IsCacheValidLate(item, t) == t <= item.expiresAt
IsCacheValid(item, t) == t < item.expiresAt

\* getCachedItem: the entry's article on a valid hit; an expired entry is
\* removed; a storage that throws is caught and gives null.  Result: the
\* store afterwards, hit, art
GetCachedItem(st, key, t, throws) ==
    IF throws \/ key \notin DOMAIN st
    THEN [store |-> st, hit |-> FALSE, art |-> NoArt]
    ELSE IF IsCacheValid(st[key], t)
         THEN [store |-> st, hit |-> TRUE, art |-> st[key].article]
         ELSE [store |-> [k \in (DOMAIN st) \ {key} |-> st[k]],
               hit |-> FALSE, art |-> NoArt]

\* setCachedItem: a storage that throws is caught and nothing is written
SetCachedItemAnyway(st, key, article, expiryMs, t, throws) ==
    [k \in (DOMAIN st) \cup {key} |->
        IF k = key
        THEN [article |-> article, expiresAt |-> t + expiryMs,
              writtenAt |-> t, ttl |-> expiryMs]
        ELSE st[k]]
SetCachedItem(st, key, article, expiryMs, t, throws) ==
    IF throws THEN st
    ELSE [k \in (DOMAIN st) \cup {key} |->
            IF k = key
            THEN [article |-> article, expiresAt |-> t + expiryMs,
                  writtenAt |-> t, ttl |-> expiryMs]
            ELSE st[k]]

\* ------------------------------------------------------------------------
\* PacingEngine
\* ------------------------------------------------------------------------
\* n is syllables.length; timer is the due time of the pending setTimeout.
\* ctl, und, log, frozen and pausedAt are history fields: the last control
\* call ("resumed": a resume() that found the engine paused), the run
\* started from Idle at index 0 and not disturbed since, the notifications
\* of that run, now - startTime at the last pause(), and when that was.
PacingEngine(id, n, sp) ==
    [id |-> id, n |-> n, currentIndex |-> 0,
     isPlaying |-> FALSE, isPaused |-> FALSE,
     speed |-> IF sp = 0 THEN DefaultSpeed ELSE sp,
     timer |-> NoTimer, startTime |-> 0, pausedTime |-> 0,
     ctl |-> "new", und |-> FALSE, log |-> <<>>, frozen |-> 0,
     pausedAt |-> 0]

Syl(e, i) == [id |-> e.id, k |-> "syl", i |-> i]
Done(e) == [id |-> e.id, k |-> "done", i |-> e.n]

\* stop(): both flags cleared, the pending timeout cleared
StopKeepsTimer(e) ==
    [e |-> [e EXCEPT !.isPlaying = FALSE, !.isPaused = FALSE],
     o |-> <<>>]
Stop(e) ==
    [e |-> [e EXCEPT !.isPlaying = FALSE, !.isPaused = FALSE,
                     !.timer = NoTimer],
     o |-> <<>>]

\* highlightSyllable(): complete at the end of the text, otherwise notify,
\* advance and schedule the next reveal after the current speed
HighlightSyllableNoEnd(e, t) ==
    [e |-> [e EXCEPT !.currentIndex = @ + 1, !.timer = t + e.speed],
     o |-> <<Syl(e, e.currentIndex)>>]
HighlightSyllableLate(e, t) ==
    IF e.currentIndex > e.n
    THEN [e |-> Stop(e).e, o |-> <<Done(e)>>]
    ELSE [e |-> [e EXCEPT !.currentIndex = @ + 1, !.timer = t + e.speed],
          o |-> <<Syl(e, e.currentIndex)>>]
HighlightSyllable(e, t) ==
    IF e.currentIndex >= e.n
    THEN [e |-> Stop(e).e, o |-> <<Done(e)>>]
    ELSE [e |-> [e EXCEPT !.currentIndex = @ + 1, !.timer = t + e.speed],
          o |-> <<Syl(e, e.currentIndex)>>]

\* start()
StartAlways(e, t) ==
    HighlightSyllable([e EXCEPT !.isPlaying = TRUE, !.isPaused = FALSE,
                                !.startTime = t - e.pausedTime], t)
Start(e, t) ==
    IF e.isPlaying
    THEN [e |-> e, o |-> <<>>]
    ELSE HighlightSyllable([e EXCEPT !.isPlaying = TRUE, !.isPaused = FALSE,
                                     !.startTime = t - e.pausedTime], t)

\* pause()
PauseKeepTimer(e, t) ==
    IF (~e.isPlaying) \/ e.isPaused
    THEN [e |-> e, o |-> <<>>]
    ELSE [e |-> [e EXCEPT !.isPaused = TRUE, !.pausedTime = t - e.startTime],
          o |-> <<>>]
Pause(e, t) ==
    IF (~e.isPlaying) \/ e.isPaused
    THEN [e |-> e, o |-> <<>>]
    ELSE [e |-> [e EXCEPT !.isPaused = TRUE, !.pausedTime = t - e.startTime,
                          !.timer = NoTimer],
          o |-> <<>>]

\* resume()
ResumeNoReveal(e, t) ==
    IF ~e.isPaused
    THEN [e |-> e, o |-> <<>>]
    ELSE [e |-> [e EXCEPT !.isPlaying = TRUE, !.isPaused = FALSE,
                          !.startTime = t - e.pausedTime],
          o |-> <<>>]
ResumeWaits(e, t) ==
    IF ~e.isPaused
    THEN [e |-> e, o |-> <<>>]
    ELSE [e |-> [e EXCEPT !.isPlaying = TRUE, !.isPaused = FALSE,
                          !.startTime = t - e.pausedTime,
                          !.timer = t + e.speed],
          o |-> <<>>]
ResumeAlways(e, t) ==
    HighlightSyllable([e EXCEPT !.isPlaying = TRUE, !.isPaused = FALSE,
                                !.startTime = t - e.pausedTime], t)
ResumeKeepStart(e, t) ==
    IF ~e.isPaused
    THEN [e |-> e, o |-> <<>>]
    ELSE HighlightSyllable([e EXCEPT !.isPlaying = TRUE, !.isPaused = FALSE], t)
Resume(e, t) ==
    IF ~e.isPaused
    THEN [e |-> e, o |-> <<>>]
    ELSE HighlightSyllable([e EXCEPT !.isPlaying = TRUE, !.isPaused = FALSE,
                                     !.startTime = t - e.pausedTime], t)

\* reset(): stop, rewind, forget the elapsed time, preview syllable 0
ResetKeepsElapsed(e) ==
    [e |-> [Stop(e).e EXCEPT !.currentIndex = 0],
     o |-> <<Syl(e, 0)>>]
Reset(e) ==
    [e |-> [Stop(e).e EXCEPT !.currentIndex = 0, !.pausedTime = 0],
     o |-> <<Syl(e, 0)>>]

\* setSpeed()
SetSpeedReschedules(e, sp) ==
    [e |-> [e EXCEPT !.speed = sp,
                     !.timer = IF @ = NoTimer THEN @ ELSE @ - e.speed + sp],
     o |-> <<>>]
SetSpeed(e, sp) == [e |-> [e EXCEPT !.speed = sp], o |-> <<>>]

\* the setTimeout callback of highlightSyllable
TimerCallback(e, t) ==
    IF e.isPlaying
    THEN HighlightSyllable([e EXCEPT !.timer = NoTimer], t)
    ELSE [e |-> [e EXCEPT !.timer = NoTimer], o |-> <<>>]

\* getElapsedTime()
GetElapsedTime(e, t) ==
    IF (~e.isPlaying) /\ e.pausedTime = 0 THEN 0
    ELSE IF e.isPaused THEN e.pausedTime
    ELSE t - e.startTime

\* getProgress().percentage: Math.round((currentIndex / total) * 100),
\* computed in IEEE 754 doubles.  The quotient and the product are each
\* rounded to the nearest double, which changes what Math.round gives only
\* when 100 * currentIndex / total is exactly p + 1/2: the double then
\* comes out as p + 1/2, rounded up to p + 1, except for the four p of
\* halfDown, where it comes out just below and is rounded down to p.
GetProgress(e) ==
    LET whole == (100 * e.currentIndex) \div e.n
        rest == (100 * e.currentIndex) % e.n
        halfDown == {14, 28, 56, 57}
    IN  [current |-> e.currentIndex, total |-> e.n,
         percentage |-> IF e.n > 0
                        THEN IF 2 * rest < e.n THEN whole
                             ELSE IF 2 * rest > e.n THEN whole + 1
                             ELSE IF whole \in halfDown THEN whole
                             ELSE whole + 1
                        ELSE 0]

\* History of a control call op on engine old with result res at time t
Track(old, res, op, t) ==
    LET e == res.e
        idleAtZero == (~old.isPlaying) /\ (~old.isPaused) /\ old.currentIndex = 0
        entries == [j \in 1..Len(res.o) |->
                       [k |-> res.o[j].k, i |-> res.o[j].i, at |-> t,
                        sp |-> e.speed]]
    IN  CASE op = "start" /\ idleAtZero ->
                [e EXCEPT !.ctl = op, !.und = TRUE, !.log = entries]
          [] op = "start" /\ old.isPlaying ->
                [e EXCEPT !.ctl = op]
          [] op = "start" ->
                [e EXCEPT !.ctl = op, !.und = FALSE, !.log = <<>>]
          [] op = "pause" ->
                [e EXCEPT !.ctl = op, !.und = FALSE, !.log = <<>>,
                          !.frozen = IF old.isPlaying /\ ~old.isPaused
                                     THEN t - old.startTime ELSE @,
                          !.pausedAt = IF old.isPlaying /\ ~old.isPaused
                                       THEN t ELSE @]
          [] op = "resume" /\ old.isPaused ->
                [e EXCEPT !.ctl = "resumed", !.und = FALSE, !.log = <<>>]
          [] op \in {"resume", "stop", "reset"} ->
                [e EXCEPT !.ctl = op, !.und = FALSE, !.log = <<>>]
          [] op = "timer" ->
                [e EXCEPT !.log = IF e.und THEN @ \o entries ELSE @]
          [] OTHER -> e

\* ------------------------------------------------------------------------
\* SyllableParser.  A text is a sequence of characters, a character is a
\* one-character string.  The hyphenation library is not part of the
\* source tree; what initHypher() finds is a choice of the initial state.
\* ------------------------------------------------------------------------
LowerLetters == {"a", "b"}
UpperLetters == {"A"}
Digits == {"7"}
Underscore == {"_"}
\* the characters of the texts parsed here
TextChars == LowerLetters \cup UpperLetters \cup Digits \cup Underscore
                 \cup {",", "-", " "}
\* the classes of the three replace() calls of parse()
Marks == {",", ";", "!", "?"}
Dashes == {"emdash", "-"}
Quotes == {"'", "\""}
AllChars == TextChars \cup Marks \cup Dashes \cup Quotes
\* \w
WordChars == LowerLetters \cup UpperLetters \cup Digits \cup Underscore
\* [^a-zA-Z0-9]
NonAlnumChars == AllChars \ (LowerLetters \cup UpperLetters \cup Digits)
\* [aeiouy] under the i flag, and [^aeiouy]
VowelChars == {"a", "A"}
NonVowelChars == AllChars \ VowelChars

Texts == UNION {[1..n -> TextChars] : n \in 0..MaxText}

\* the first index j >= i with s[j] outside cls, Len(s)+1 when there is none:
\* the end of the greedy run cls* matched at i
RunEnd(s, i, cls) ==
    CHOOSE j \in i..(Len(s) + 1) :
        /\ (j = Len(s) + 1 \/ s[j] \notin cls)
        /\ \A k \in i..(j - 1) : s[k] \in cls

\* replace(/([cls])\1+/g, '$1'): a run of one repeated character of the
\* class becomes one occurrence
RECURSIVE ReplaceRuns(_, _)
ReplaceRuns(s, cls) ==
    IF Len(s) < 2 THEN s
    ELSE IF s[1] \in cls /\ s[2] = s[1] THEN ReplaceRuns(Tail(s), cls)
    ELSE <<s[1]>> \o ReplaceRuns(Tail(s), cls)

\* cleanedText of parse()
CleanedText(text) == ReplaceRuns(ReplaceRuns(ReplaceRuns(text, Marks), Dashes), Quotes)

\* the successive matches of wordRegex.exec(cleanedText) from index i:
\* the search moves to the next \w, group 1 is the run of \w there, group
\* 2 the run of [^a-zA-Z0-9] after it
RECURSIVE WordRegex(_, _)
WordRegex(s, i) ==
    LET a == RunEnd(s, i, AllChars \ WordChars)
    IN  IF a > Len(s) THEN << >>
        ELSE LET b == RunEnd(s, a, WordChars)
                 c == RunEnd(s, b, NonAlnumChars)
             IN  <<[word |-> SubSeq(s, a, b - 1),
                    following |-> SubSeq(s, b, c - 1)]>> \o WordRegex(s, c)

LowerChar(c) == IF c = "A" THEN "a" ELSE c
\* word.toLowerCase()
LowerWord(word) == [i \in 1..Len(word) |-> LowerChar(word[i])]

\* word.match(pattern) from index i: [^aeiouy]*[aeiouy]+ and then, in
\* this order of preference, the consonants up to the end of the word, one
\* consonant that another consonant follows, or nothing
RECURSIVE FallbackMatches(_, _)
FallbackMatches(word, i) ==
    LET v == RunEnd(word, i, NonVowelChars)
    IN  IF v > Len(word) THEN << >>
        ELSE LET e == RunEnd(word, v, VowelChars)
                 z == RunEnd(word, e, NonVowelChars)
                 j == IF z > Len(word) THEN z
                      ELSE IF z >= e + 2 THEN e + 1
                      ELSE e
             IN  <<SubSeq(word, i, j - 1)>> \o FallbackMatches(word, j)

FallbackSyllabify(word) ==
    LET matches == FallbackMatches(word, 1)
    IN  IF matches # << >> THEN matches ELSE <<word>>

\* the loop of applyOriginalCase from charIndex on: each syllable takes as
\* many characters of the original word as it is long, while there are any
RECURSIVE CasePreserved(_, _, _)
CasePreserved(originalWord, syllables, charIndex) ==
    IF syllables = << >> THEN << >>
    ELSE LET next == Min(charIndex + Len(Head(syllables)), Len(originalWord))
         IN  <<SubSeq(originalWord, charIndex + 1, next)>>
                 \o CasePreserved(originalWord, Tail(syllables), next)

ApplyOriginalCaseLower(originalWord, syllables) == syllables
ApplyOriginalCase(originalWord, syllables) ==
    CasePreserved(originalWord, syllables, 0)

\* this.hypher after initHypher(): "none" (Hypher is undefined or its
\* constructor threw: null), "throws" (hyphenate() throws, or returns
\* something without a split(), such as an array), and three libraries whose
\* hyphenate() returns a string: the word with a hyphen after its first
\* character, the word with one segment too many, the first character only
Hyphers == {"none", "throws", "first", "extra", "short"}

\* this.hypher.hyphenate(lowerWord) of the libraries that return a string
Hyphenate(hypher, lowerWord) ==
    IF hypher = "first"
    THEN IF Len(lowerWord) > 1
         THEN <<lowerWord[1], "-">> \o Tail(lowerWord)
         ELSE lowerWord
    ELSE IF hypher = "extra" THEN lowerWord \o <<"-", "a">>
    ELSE <<lowerWord[1]>>

\* s.split(sep)
RECURSIVE Split(_, _)
Split(s, sep) ==
    IF \A i \in 1..Len(s) : s[i] # sep THEN <<s>>
    ELSE LET i == CHOOSE j \in 1..Len(s) :
                      s[j] = sep /\ \A k \in 1..(j - 1) : s[k] # sep
         IN  <<SubSeq(s, 1, i - 1)>> \o Split(SubSeq(s, i + 1, Len(s)), sep)

SyllabifyWord(hypher, word) ==
    LET lowerWord == LowerWord(word)
        syllables == IF hypher \in {"none", "throws"}
                     THEN FallbackSyllabify(lowerWord)
                     ELSE Split(Hyphenate(hypher, lowerWord), "-")
    IN  ApplyOriginalCase(word, syllables)

\* word.split('')
SplitChars(word) == [i \in 1..Len(word) |-> <<word[i]>>]

\* the three branches of parse(): a number, an acronym, any other word
WordSyllables(hypher, word) ==
    IF \A i \in 1..Len(word) : word[i] \in Digits THEN SplitChars(word)
    ELSE IF Len(word) >= 2 /\ \A i \in 1..Len(word) : word[i] \in UpperLetters
         THEN SplitChars(word)
    ELSE SyllabifyWord(hypher, word)

EndIndexPastEnd(wordStart, n) == wordStart + n
\* endIndex of a wordMap entry whose n syllables start at wordStart
EndIndex(wordStart, n) == wordStart + n - 1

\* the while loop of parse() over the matches still to come
RECURSIVE ParseLoop(_, _, _, _)
ParseLoop(hypher, matches, syllables, wordMap) ==
    IF matches = << >> THEN [syllables |-> syllables, wordMap |-> wordMap]
    ELSE LET match == Head(matches)
             wordStart == Len(syllables)
             wordSyllables == WordSyllables(hypher, match.word)
         IN  ParseLoop(hypher, Tail(matches), syllables \o wordSyllables,
                       Append(wordMap,
                              [word |-> match.word,
                               following |-> match.following,
                               startIndex |-> wordStart,
                               endIndex |-> EndIndex(wordStart, Len(wordSyllables)),
                               syllables |-> wordSyllables]))

\* parse(text) of a SyllableParser whose this.hypher is hypher
Parse(hypher, text) ==
    ParseLoop(hypher, WordRegex(CleanedText(text), 1), << >>, << >>)

NoDoc == [syllables |-> << >>, wordMap |-> << >>]
NoParse == [pc |-> "none", text |-> << >>, doc |-> NoDoc, hypher |-> "none"]

\* ------------------------------------------------------------------------
\* Service worker (service-worker.js).  A request is one of four kinds:
\* the featured-feed API, the api.php query API for a title without and
\* for a title with the letters "featured" in it, a static asset.  A Cache
\* object holds at most one response per request: whether it carries the
\* sw-cached-date header, the date of the header, and when the response
\* came from the network.  A handler is followed through its awaits:
\* caches.open, cache.match, fetch; a cache.put is called and completes
\* later, nobody awaits it.
\* ------------------------------------------------------------------------
SwStaticTTL == 604800000
SwFeaturedTTL == 86400000
SwCustomTTL == 604800000

Requests == {"featured", "article", "articleFeatured", "static"}
\* isWikipediaAPI(url)
IsWikipediaAPI(req) == req \in {"featured", "article", "articleFeatured"}
\* request.url.includes('featured'): a test of the text of the URL, which
\* the query for a title such as "featured article" passes as well
UrlIncludesFeatured(req) == req \in {"featured", "articleFeatured"}

NoResponse == [has |-> FALSE, dated |-> FALSE, date |-> 0, at |-> 0]
\* cache.addAll(STATIC_ASSETS) of the install event: the responses are
\* stored as fetched, without the sw-cached-date header
Installed(t) == [has |-> TRUE, dated |-> FALSE, date |-> 0, at |-> t]
\* addCacheHeaders(response.clone()) at time t
AddCacheHeaders(t) == [has |-> TRUE, dated |-> TRUE, date |-> t, at |-> t]

NoAnswer == [req |-> "none", from |-> "none", age |-> 0, online |-> FALSE]
\* cache: the Cache objects made so far, the last of them the one named
\* CACHE_NAME, the others deleted and still held by the handlers that
\* opened them; run: the handlers that have not returned (a bag: two
\* handlers may be at the same point for the same request), each with the
\* await it waits at ("open", "match", "fetch"), the Cache object it
\* opened and the response it read from it ("reval": the fetch of a
\* background revalidation, which nobody awaits); puts: the cache.put
\* calls that have not completed
NoWorker == [cache |-> << [r \in Requests |-> NoResponse] >>,
             run |-> EmptyBag, puts |-> {},
             online |-> FALSE, last |-> NoAnswer, reqs |-> 0, waits |-> 0]

\* what the handler answers with: the cached response it read, the
\* network response, or a rejection
Answer(W, req, from, cachedResponse, t) ==
    [req |-> req, from |-> from,
     age |-> IF from = "cache" THEN t - cachedResponse.at ELSE 0,
     online |-> W.online]

\* the handlers of W once h has returned
Returned(W, h) == W.run (-) SetToBag({h})

MaxAge(req) == IF UrlIncludesFeatured(req) THEN SwFeaturedTTL ELSE SwCustomTTL

\* handleWikipediaAPI(request) from the moment cache.match has answered
\* handler h, at time t, up to its return of the cached response or to
\* its await of fetch(request)
HandleWikipediaAPI(W, h, t) ==
    LET cachedResponse == W.cache[h.cache][h.req]
        cacheAge == t - cachedResponse.date
        maxAge == MaxAge(h.req)
        reval == [h EXCEPT !.kind = "reval", !.pc = "fetch",
                           !.cached = cachedResponse]
    IN  IF cachedResponse.has /\ ~cachedResponse.dated
        THEN [W EXCEPT !.run = Returned(W, h),
                       !.last = Answer(W, h.req, "cache", cachedResponse, t)]
        ELSE IF cachedResponse.has /\ cacheAge < maxAge
        THEN [W EXCEPT !.run = IF 2 * cacheAge > maxAge
                               THEN Returned(W, h) (+) SetToBag({reval})
                               ELSE Returned(W, h),
                       !.last = Answer(W, h.req, "cache", cachedResponse, t)]
        ELSE [W EXCEPT !.run = Returned(W, h) (+)
                                  SetToBag({[h EXCEPT !.pc = "fetch",
                                               !.cached = cachedResponse]}),
                       !.last = NoAnswer]

\* handleStaticAsset(request) from the moment cache.match has answered
\* handler h: the cached response whatever its age, otherwise the await
\* of fetch(request)
HandleStaticAsset(W, h, t) ==
    LET cachedResponse == W.cache[h.cache][h.req]
    IN  IF cachedResponse.has
        THEN [W EXCEPT !.run = Returned(W, h),
                       !.last = Answer(W, h.req, "cache", cachedResponse, t)]
        ELSE [W EXCEPT !.run = Returned(W, h) (+)
                                  SetToBag({[h EXCEPT !.pc = "fetch"]}),
                       !.last = NoAnswer]

\* cache.put(request, addCacheHeaders(response.clone())) is called by
\* handler h at time t: the header is dated now, the entry is written
\* when the put completes
PutCalled(W, h, t) ==
    [W EXCEPT !.puts = @ \cup {[cache |-> h.cache, req |-> h.req,
                                response |-> AddCacheHeaders(t)]}]

\* the class TTL of a request
ClassTTL(req) ==
    IF req = "static" THEN SwStaticTTL
    ELSE IF req = "featured" THEN SwFeaturedTTL
    ELSE SwCustomTTL

\* ------------------------------------------------------------------------
\* FetchUtils.fetchWithTimeout(url, options, timeout, retries)
\* ------------------------------------------------------------------------
FetchTimeout == 15000
BackoffBase == 1000

\* how an attempt can end: response.ok, a response that is not ok, fetch
\* rejecting (network error), the abort timer firing
Outcomes == {"ok", "status", "network", "timeout"}

BackoffDelayLinear(attempt) == (attempt + 1) * BackoffBase
\* Math.pow(2, attempt) * 1000
BackoffDelay(attempt) == (2 ^ attempt) * BackoffBase

\* pc: "attempt" (awaiting fetch), "backoff" (awaiting the delay),
\* "returned", "threw"; attempt: the loop variable; outcomes: how each
\* attempt made so far ended; waited: how long each backoff lasted;
\* error: what was thrown
NoRequest == [pc |-> "none", retries |-> 0, attempt |-> 0, since |-> 0,
              outcomes |-> << >>, waited |-> << >>, error |-> "none"]

\* the catch block of attempt number rq.attempt, entered at time t with
\* an AbortError (abort) or with any other error
Catch(r, abort, t) ==
    LET isLastAttempt == r.attempt = r.retries
    IN  IF isLastAttempt
        THEN [r EXCEPT !.pc = "threw",
                       !.error = IF abort THEN "timeout" ELSE "transport"]
        ELSE [r EXCEPT !.pc = "backoff", !.since = t]

\* ------------------------------------------------------------------------
\* State
\* ------------------------------------------------------------------------
VARIABLES
    now,            \* Date.now()
    store,          \* localStorage entries under CACHE_PREFIX, by key
    live,           \* UIController.engine (id 0: null)
    orphans,        \* replaced engines whose timeout is still pending
    articleContent, \* UIController.articleContent
    dom,            \* the texts rendered in the article element, in order
    cancelled,      \* UIController.pendingPromiseCancelled
    speedCtl,       \* value of the speed control
    fg,             \* the foreground acquisition in progress
    bg,             \* the _fullArticlePromise of every abbreviated item
    nextId,         \* identity of the next engine constructed
    loads,          \* foreground acquisitions begun: daily, named
    ops,            \* control calls made
    out,            \* notifications emitted by the last step
    act,            \* the last step
    lim,            \* the run: its bounds, what is answered, the calendar
    lastRead,       \* the getCachedItem call of the last step
    lastSummary,    \* the summary getFeaturedArticle handled in the last step
    lastUpd,        \* the updateArticleContent call of the last step
    storage,        \* whether localStorage throws: on read, on write
    parser,         \* the SyllableParser and its parse call in progress
    sw,             \* the service worker: its cache, the network, its last answer
    pf,             \* the prefetches of tomorrow's article under way
    rq              \* the FetchUtils.fetchWithTimeout call in progress

vars == <<now, store, live, orphans, articleContent, dom, cancelled, speedCtl,
          fg, bg, nextId, loads, ops, out, act, lim, lastRead, lastSummary,
          lastUpd, storage, parser, sw, pf, rq>>

StorageOk == [read |-> FALSE, write |-> FALSE]

\* a day on which the clocks are not changed
PlainDay == 24 * 60 * 60 * 1000
\* how long the local calendar day d lasts
DayLength(d) ==
    IF d = lim.cal.changes THEN PlainDay + lim.cal.shift ELSE PlainDay
\* when day d begins, in ms after the local midnight that began day 0
DayBegin(d) ==
    d * PlainDay + (IF d > lim.cal.changes THEN lim.cal.shift ELSE 0)
\* the local calendar date of the instant t (getFullYear(), getMonth() + 1
\* and getDate() of a Date made at t), in days after the date of the
\* opening
DateOf(t) ==
    LET x == lim.cal.origin + t
    IN  IF x < DayBegin(lim.cal.changes) THEN x \div PlainDay
        ELSE IF x < DayBegin(lim.cal.changes + 1) THEN lim.cal.changes
        ELSE (x - lim.cal.shift) \div PlainDay
\* the key loadFeaturedArticle hands to getFeaturedArticle now: today's
FeaturedKey == FeaturedKeyOf(DateOf(now))
\* the key prefetchTomorrowArticle hands to it now: that of the day after
TomorrowKey == FeaturedKeyOf(DateOf(now) + 1)

NoEngine == PacingEngine(0, 0, 0)

NoCap == [wasPlaying |-> FALSE, wasPaused |-> FALSE, currentIndex |-> 0,
          elapsedTime |-> 0, frozen |-> 0, oldN |-> 0, state |-> "none",
          elapsed |-> 0]

FgIdle == [pc |-> "idle", kind |-> "none", title |-> "", art |-> NoArt, p |-> 0,
           key |-> << >>]

NoRead == [key |-> <<>>, at |-> 0, hit |-> FALSE, art |-> NoArt,
           had |-> FALSE, writtenAt |-> 0, ttl |-> 0, written |-> NoArt]

NoSummary == [chars |-> -1, promise |-> FALSE, nbg |-> 0, returned |-> NoArt,
              key |-> << >>]

NoUpd == [kind |-> "none", i |-> 0, C |-> 0, N |-> 0, cap |-> NoCap,
          before |-> NoEngine, content |-> NoArt, shown |-> << >>,
          restored |-> NoEngine, crossed |-> NoArt]

\* the controller state the handlers thread through their steps
Cur == [store |-> store, live |-> live, orphans |-> orphans,
        articleContent |-> articleContent, dom |-> dom,
        cancelled |-> cancelled, fg |-> fg, bg |-> bg, nextId |-> nextId,
        out |-> <<>>, lastRead |-> NoRead, lastSummary |-> NoSummary,
        lastUpd |-> NoUpd, pf |-> pf]

Becomes(U) ==
    /\ store' = U.store
    /\ live' = U.live
    /\ orphans' = U.orphans
    /\ articleContent' = U.articleContent
    /\ dom' = U.dom
    /\ cancelled' = U.cancelled
    /\ fg' = U.fg
    /\ bg' = U.bg
    /\ nextId' = U.nextId
    /\ out' = U.out
    /\ lastRead' = U.lastRead
    /\ lastSummary' = U.lastSummary
    /\ lastUpd' = U.lastUpd
    /\ pf' = U.pf

\* the text appended last to the article element: the one whose syllables
\* the engine installed with it plays through
Shown == IF dom = << >> THEN NoArt ELSE dom[Len(dom)]

\* "Idle", "Playing", "Paused" as the flags encode them
StateOf(e) == IF e.isPaused THEN "Paused"
              ELSE IF e.isPlaying THEN "Playing" ELSE "Idle"

\* ------------------------------------------------------------------------
\* WikipediaService reads and writes of the cache, with their history
\* ------------------------------------------------------------------------
CacheGet(U, key) ==
    LET r == GetCachedItem(U.store, key, now, storage.read)
        had == key \in DOMAIN U.store
    IN  [U |-> [U EXCEPT !.store = r.store,
                         !.lastRead = [key |-> key, at |-> now, hit |-> r.hit,
                                       art |-> r.art, had |-> had,
                                       writtenAt |-> IF had THEN U.store[key].writtenAt ELSE 0,
                                       ttl |-> IF had THEN U.store[key].ttl ELSE 0,
                                       written |-> IF had THEN U.store[key].article
                                                   ELSE NoArt]],
         hit |-> r.hit, art |-> r.art]

CachePut(U, key, article, expiryMs) ==
    [U EXCEPT !.store = SetCachedItem(U.store, key, article, expiryMs, now,
                                      storage.write)]

\* ------------------------------------------------------------------------
\* UIController: installing content
\* ------------------------------------------------------------------------
\* this.engine = new PacingEngine(...): the replaced engine stays alive only
\* through its pending timeout
Install(U, e) ==
    [U EXCEPT !.live = e,
              !.orphans = IF U.live.timer # NoTimer THEN @ \cup {U.live} ELSE @,
              !.nextId = @ + 1]

StopLive(U) ==
    IF U.live.id = 0 THEN U
    ELSE [U EXCEPT !.live = Track(U.live, Stop(U.live), "stop", now)]

\* renderSyllablesAsync yields to the browser once CHUNK_SIZE syllables have
\* been produced
RenderYields(art) == art.syls >= CHUNK_SIZE

\* history: the article a displayArticle call goes on to render is noted
\* in every merge that is suspended in its own rendering at that moment
Crossing(b, art) ==
    [i \in DOMAIN b |-> IF b[i].st = "merging"
                        THEN [b[i] EXCEPT !.crossed = art] ELSE b[i]]

\* displayArticle up to the await of renderSyllablesAsync: the article
\* element is emptied (innerHTML = '') on every path
\* status: "empty" (returned early), "render" (rendering)
DisplayBegin(U, art) ==
    LET U1 == StopLive(U)
    IN  IF art.blank
        THEN [U |-> [U1 EXCEPT !.dom = << >>], status |-> "empty"]
        ELSE IF art.syls = 0
        THEN [U |-> [U1 EXCEPT !.articleContent = art, !.dom = << >>],
              status |-> "empty"]
        ELSE [U |-> [U1 EXCEPT !.articleContent = art, !.dom = << >>,
                               !.bg = Crossing(@, art)],
              status |-> "render"]

\* displayArticle after the await: the rendered text is appended to what
\* the article element holds by then, and the new engine constructed
DisplayFinish(U, art) ==
    Install([U EXCEPT !.dom = Append(@, art)],
            PacingEngine(U.nextId, art.syls, speedCtl))

\* ------------------------------------------------------------------------
\* UIController.updateArticleContent
\* ------------------------------------------------------------------------
\* increasePercentage < 20, with currentSyllableCount > 0
BelowThresholdInclusive(C, N) == C > 0 /\ 100 * (N - C) <= MergeThreshold * C
BelowThreshold(C, N) == C > 0 /\ 100 * (N - C) < MergeThreshold * C

\* const wasPlaying / wasPaused / currentIndex / elapsedTime; frozen, oldN,
\* state and elapsed are history: what the engine was, and what its
\* getElapsedTime() returned, when the merge began
Capture(e) ==
    [wasPlaying |-> e.id # 0 /\ e.isPlaying,
     wasPaused |-> e.id # 0 /\ e.isPaused,
     currentIndex |-> IF e.id # 0 THEN e.currentIndex ELSE 0,
     elapsedTime |-> IF e.id # 0 THEN e.pausedTime ELSE 0,
     frozen |-> e.frozen,
     oldN |-> e.n,
     state |-> IF e.id = 0 THEN "none" ELSE StateOf(e),
     elapsed |-> IF e.id # 0 THEN GetElapsedTime(e, now) ELSE 0]

\* the new engine with the captured state restored; o: what it emits;
\* r: the new engine once position and elapsed time have been assigned,
\* before start() is called on it
Restore(cap, e0, t) ==
    IF cap.wasPlaying \/ cap.wasPaused
    THEN LET e1 == [e0 EXCEPT !.currentIndex = Min(cap.currentIndex, e0.n - 1),
                              !.pausedTime = cap.elapsedTime,
                              !.frozen = cap.frozen]
         IN  IF cap.wasPlaying
             THEN LET r == Start(e1, t)
                  IN  [e |-> Track(e1, r, "start", t), o |-> r.o,
                      r |-> e1]
             ELSE [e |-> [e1 EXCEPT !.isPaused = TRUE], o |-> <<>>, r |-> e1]
    ELSE [e |-> e0, o |-> <<>>, r |-> e0]

\* a completion whose handler has run to its end: nothing refers to its
\* articles any more
Settled(b) ==
    [b EXCEPT !.st = "done", !.extract = NoArt, !.val = NoArt,
              !.cand = NoArt, !.cap = NoCap, !.crossed = NoArt,
              !.key = << >>]

\* updateArticleContent after the await of renderSyllablesAsync: the
\* rendered text is appended to what the article element holds by then
MergeFinish(U, i) ==
    LET art == U.bg[i].cand
        cap == U.bg[i].cap
        r == Restore(cap, PacingEngine(U.nextId, art.syls, speedCtl), now)
        U1 == Install([U EXCEPT !.dom = Append(@, art)], r.e)
    IN  [U1 EXCEPT !.out = @ \o r.o,
                   !.bg[i] = Settled(@),
                   !.lastUpd = [kind |-> "merged", i |-> i, C |-> cap.oldN,
                                N |-> art.syls, cap |-> cap,
                                before |-> U.live,
                                content |-> U.articleContent,
                                shown |-> U.dom, restored |-> r.r,
                                crossed |-> U.bg[i].crossed]]

\* updateArticleContent(updatedArticle) for the completion i; before its
\* await it removes the first text of the article element
\* (querySelector('.article-text'))
UpdateArticleContent(U, i, art) ==
    LET C == IF U.live.id # 0 THEN U.live.n ELSE 0
        N == art.syls
        ran == [U EXCEPT !.bg[i].ran = TRUE]
        skip(kind) == [ran EXCEPT !.bg[i] = Settled(@),
                                  !.lastUpd = [kind |-> kind, i |-> i, C |-> C,
                                               N |-> N, cap |-> Capture(U.live),
                                               before |-> U.live,
                                               content |-> U.articleContent,
                                               shown |-> U.dom,
                                               restored |-> NoEngine,
                                               crossed |-> NoArt]]
    IN  IF art.blank \/ N = 0 THEN skip("empty")
        ELSE IF BelowThreshold(C, N) THEN skip("discarded")
        ELSE LET U1 == StopLive(ran)
                 U2 == [U1 EXCEPT !.articleContent = art,
                                  !.dom = IF @ = << >> THEN @ ELSE Tail(@),
                                  !.bg[i].applied = TRUE,
                                  !.bg[i].cap = Capture(U.live),
                                  !.bg[i].cand = art,
                                  !.bg[i].st = "merging",
                                  !.lastUpd = [kind |-> "merging", i |-> i,
                                               C |-> C, N |-> N,
                                               cap |-> Capture(U.live),
                                               before |-> U.live,
                                               content |-> U.articleContent,
                                               shown |-> U.dom,
                                               restored |-> NoEngine,
                                               crossed |-> NoArt]]
             IN  IF RenderYields(art) THEN U2 ELSE MergeFinish(U2, i)

\* the handler loadFeaturedArticle attaches to _fullArticlePromise
RunHandler(U, i) ==
    IF U.cancelled
    THEN [U EXCEPT !.bg[i] = Settled(@)]
    ELSE UpdateArticleContent(U, i, U.bg[i].val)

\* this.prefetchTomorrowArticle() of loadFeaturedArticle: a timeout of
\* PrefetchDelay ms is set
PrefetchTomorrowArticle(U, kind) ==
    IF kind = "daily"
    THEN [U EXCEPT !.pf = Append(@, [pc |-> "timer", due |-> now + PrefetchDelay,
                                     title |-> "", key |-> << >>])]
    ELSE U

\* loadFeaturedArticle after displayArticle has returned: p is the
\* completion of the item displayed (0: none)
AfterDisplayResets(U, p) ==
    IF p = 0 THEN [U EXCEPT !.cancelled = FALSE]
    ELSE LET U1 == [U EXCEPT !.cancelled = FALSE, !.bg[p].attached = TRUE]
         IN  IF U1.bg[p].st = "resolved" THEN RunHandler(U1, p) ELSE U1
AfterDisplay(U, p) ==
    IF p = 0 THEN U
    ELSE LET U1 == [U EXCEPT !.cancelled = FALSE, !.bg[p].attached = TRUE]
         IN  IF U1.bg[p].st = "resolved" THEN RunHandler(U1, p) ELSE U1

\* await displayArticle(article) and what follows it in the caller
DisplayAndTail(U, art, p, kind) ==
    LET D == DisplayBegin(U, art)
    IN  IF D.status = "render" /\ RenderYields(art)
        THEN [D.U EXCEPT !.fg = [pc |-> "render", kind |-> kind, title |-> "",
                                 art |-> art, p |-> p, key |-> << >>]]
        ELSE LET U2 == IF D.status = "render" THEN DisplayFinish(D.U, art)
                       ELSE D.U
             IN  [AfterDisplay(PrefetchTomorrowArticle(U2, kind), p)
                     EXCEPT !.fg = FgIdle]

NewBg(extract, st, val) ==
    [st |-> st, extract |-> extract, val |-> val, attached |-> FALSE,
     cap |-> NoCap, cand |-> NoArt, owner |-> loads.daily,
     supDaily |-> FALSE, supNamed |-> FALSE, ran |-> FALSE, applied |-> FALSE,
     crossed |-> NoArt, key |-> fg.key]

\* a foreground acquisition begins: pendingPromiseCancelled = true
BeginLoad(U, kind) ==
    [U EXCEPT !.cancelled = TRUE,
              !.bg = [i \in DOMAIN U.bg |->
                        IF U.bg[i].st = "fetch"
                        THEN IF kind = "daily"
                             THEN [U.bg[i] EXCEPT !.supDaily = TRUE]
                             ELSE [U.bg[i] EXCEPT !.supNamed = TRUE]
                        ELSE U.bg[i]]]

\* ------------------------------------------------------------------------
\* Initial state: the UIController has been constructed, its constructor
\* has called loadFeaturedArticle(), which found nothing in the cache and
\* awaits the summary
\* ------------------------------------------------------------------------
Init ==
    /\ now = 0
    /\ lim = [run |-> MaxRun, daily |-> MaxDaily, named |-> MaxNamed, ops |-> MaxOps,
              extracts |-> Extracts, pages |-> Pages, names |-> Names,
              cal |-> PlainCalendar]
    /\ store = << >>
    /\ live = NoEngine
    /\ orphans = {}
    /\ articleContent = NoArt
    /\ dom = << >>
    /\ cancelled = TRUE
    /\ speedCtl = DefaultSpeed
    /\ fg = [pc |-> "summary", kind |-> "daily", title |-> "", art |-> NoArt,
             p |-> 0, key |-> FeaturedKey]
    /\ bg = << >>
    /\ nextId = 1
    /\ loads = [daily |-> 1, named |-> 0]
    /\ ops = 0
    /\ out = << >>
    /\ act = "init"
    /\ lastRead = [NoRead EXCEPT !.key = FeaturedKey]
    /\ lastSummary = NoSummary
    /\ lastUpd = NoUpd
    /\ storage = StorageOk
    /\ parser = NoParse
    /\ sw = NoWorker
    /\ pf = << >>
    /\ rq = NoRequest

\* ------------------------------------------------------------------------
\* Foreground acquisitions
\* ------------------------------------------------------------------------
\* loadFeaturedArticle() up to its first suspension
BeginFeatured ==
    /\ fg.pc = "idle"
    /\ loads.daily < lim.daily
    /\ LET U0 == BeginLoad(Cur, "daily")
           c == CacheGet(U0, FeaturedKey)
       IN  IF c.hit
           THEN Becomes(DisplayAndTail(c.U, c.art, 0, "daily"))
           ELSE Becomes([c.U EXCEPT !.fg = [pc |-> "summary", kind |-> "daily",
                                            title |-> "", art |-> NoArt,
                                            p |-> 0, key |-> FeaturedKey]])
    /\ loads' = [loads EXCEPT !.daily = @ + 1]
    /\ act' = "loadFeatured"
    /\ UNCHANGED <<now, speedCtl, ops, lim, storage, parser, sw, rq>>

\* getFeaturedArticle decides on the summary: "complete" or "abbreviated"
SummaryPlanInclusive(x) ==
    IF x.chars >= ExtractThreshold THEN "complete" ELSE "abbreviated"
SummaryPlan(x) ==
    IF x.chars > ExtractThreshold THEN "complete" ELSE "abbreviated"

\* the summary retrieval succeeds with extract x: getFeaturedArticle
\* returns and loadFeaturedArticle displays what it returned
SummaryOk(x) ==
    /\ fg.pc = "summary"
    /\ LET art == Art(TfaTitle, x)
           U == Cur
       IN  IF SummaryPlan(x) = "complete"
           THEN LET U1 == CachePut(U, fg.key, art, DailyTTL)
                    U2 == [U1 EXCEPT !.lastSummary =
                              [chars |-> x.chars, promise |-> FALSE,
                               nbg |-> Len(U.bg), returned |-> art,
                               key |-> fg.key]]
                IN  Becomes(DisplayAndTail(U2, art, 0, "daily"))
           ELSE \* getArticleByTitle(article.title) is started, not awaited
                LET c == CacheGet(U, ArticleKey(art.title))
                    U1 == IF c.hit
                          THEN CachePut(c.U, fg.key, c.art, DailyTTL)
                          ELSE c.U
                    entry == IF c.hit THEN NewBg(art, "resolved", c.art)
                             ELSE NewBg(art, "fetch", NoArt)
                    U2 == [U1 EXCEPT !.bg = Append(@, entry),
                                     !.lastSummary =
                              [chars |-> x.chars, promise |-> TRUE,
                               nbg |-> Len(U.bg), returned |-> art,
                               key |-> fg.key]]
                IN  Becomes(DisplayAndTail(U2, art, Len(U2.bg), "daily"))
    /\ act' = "summaryOk"
    /\ UNCHANGED <<now, speedCtl, loads, ops, lim, storage, parser, sw, rq>>

\* the foreground retrieval fails after its retries (or the page is
\* missing): the catch block reports the error
LoadFailClears ==
    /\ fg.pc \in {"summary", "page"}
    /\ Becomes([StopLive(Cur) EXCEPT !.fg = FgIdle, !.dom = << >>])
    /\ act' = "loadFail"
    /\ UNCHANGED <<now, speedCtl, loads, ops, lim, storage, parser, sw, rq>>
LoadFail ==
    /\ fg.pc \in {"summary", "page"}
    /\ Becomes([Cur EXCEPT !.fg = FgIdle])
    /\ act' = "loadFail"
    /\ UNCHANGED <<now, speedCtl, loads, ops, lim, storage, parser, sw, rq>>

\* loadArticleByTitle(name) up to its first suspension
BeginNamed(name) ==
    /\ fg.pc = "idle"
    /\ loads.named < lim.named
    /\ LET U0 == BeginLoad(Cur, "named")
           c == CacheGet(U0, ArticleKey(name))
       IN  IF c.hit
           THEN Becomes(DisplayAndTail(c.U, c.art, 0, "named"))
           ELSE Becomes([c.U EXCEPT !.fg = [pc |-> "page", kind |-> "named",
                                            title |-> name, art |-> NoArt,
                                            p |-> 0, key |-> << >>]])
    /\ loads' = [loads EXCEPT !.named = @ + 1]
    /\ act' = "loadByTitle"
    /\ UNCHANGED <<now, speedCtl, ops, lim, storage, parser, sw, rq>>

\* the page retrieval of a named acquisition succeeds with page pg
PageOk(pg) ==
    /\ fg.pc = "page"
    /\ LET art == Art(TfaTitle, pg)
           U1 == CachePut(Cur, ArticleKey(fg.title), art, NamedTTL)
       IN  Becomes(DisplayAndTail(U1, art, 0, "named"))
    /\ act' = "pageOk"
    /\ UNCHANGED <<now, speedCtl, loads, ops, lim, storage, parser, sw, rq>>

\* renderSyllablesAsync of displayArticle has finished
DisplayRendered ==
    /\ fg.pc = "render"
    /\ Becomes([AfterDisplay(PrefetchTomorrowArticle(DisplayFinish(Cur, fg.art),
                                                     fg.kind), fg.p)
                   EXCEPT !.fg = FgIdle])
    /\ act' = "displayed"
    /\ UNCHANGED <<now, speedCtl, loads, ops, lim, storage, parser, sw, rq>>

\* ------------------------------------------------------------------------
\* Background completions
\* ------------------------------------------------------------------------
Resolve(U, i, val) ==
    LET U1 == [U EXCEPT !.bg[i].st = "resolved", !.bg[i].val = val]
    IN  IF U1.bg[i].attached THEN RunHandler(U1, i) ELSE U1

BgPageOkUnlessCancelled(i, pg) ==
    /\ i \in DOMAIN bg
    /\ bg[i].st = "fetch"
    /\ LET art == Art(TfaTitle, pg)
           U1 == CachePut(Cur, ArticleKey(bg[i].extract.title), art, NamedTTL)
           U2 == IF cancelled THEN U1
                 ELSE CachePut(U1, bg[i].key, art, DailyTTL)
       IN  Becomes(Resolve(U2, i, art))
    /\ act' = "bgOk"
    /\ UNCHANGED <<now, speedCtl, loads, ops, lim, storage, parser, sw, rq>>

\* the background getArticleByTitle succeeds with page pg
BgPageOk(i, pg) ==
    /\ i \in DOMAIN bg
    /\ bg[i].st = "fetch"
    /\ LET art == Art(TfaTitle, pg)
           U1 == CachePut(Cur, ArticleKey(bg[i].extract.title), art, NamedTTL)
           U2 == CachePut(U1, bg[i].key, art, DailyTTL)
       IN  Becomes(Resolve(U2, i, art))
    /\ act' = "bgOk"
    /\ UNCHANGED <<now, speedCtl, loads, ops, lim, storage, parser, sw, rq>>

BgPageFailCaches(i) ==
    /\ i \in DOMAIN bg
    /\ bg[i].st = "fetch"
    /\ Becomes(Resolve(CachePut(Cur, bg[i].key, bg[i].extract, DailyTTL),
                       i, bg[i].extract))
    /\ act' = "bgFail"
    /\ UNCHANGED <<now, speedCtl, loads, ops, lim, storage, parser, sw, rq>>

\* the background getArticleByTitle fails: the promise resolves with the
\* abbreviated item
BgPageFail(i) ==
    /\ i \in DOMAIN bg
    /\ bg[i].st = "fetch"
    /\ Becomes(Resolve(Cur, i, bg[i].extract))
    /\ act' = "bgFail"
    /\ UNCHANGED <<now, speedCtl, loads, ops, lim, storage, parser, sw, rq>>

\* renderSyllablesAsync of updateArticleContent has finished
MergeRendered(i) ==
    /\ i \in DOMAIN bg
    /\ bg[i].st = "merging"
    /\ Becomes(MergeFinish(Cur, i))
    /\ act' = "merged"
    /\ UNCHANGED <<now, speedCtl, loads, ops, lim, storage, parser, sw, rq>>

\* ------------------------------------------------------------------------
\* The control surface, called on the live engine
\* ------------------------------------------------------------------------
Control(op, res) ==
    /\ live.id # 0
    /\ ops < lim.ops
    /\ live' = Track(live, res, op, now)
    /\ out' = res.o
    /\ ops' = ops + 1
    /\ act' = op
    /\ lastRead' = NoRead /\ lastSummary' = NoSummary /\ lastUpd' = NoUpd
    /\ UNCHANGED <<now, store, orphans, articleContent, dom, cancelled,
                   speedCtl, fg, bg, nextId, loads,
                    lim, storage, parser, sw, pf, rq>>

DoStart == Control("start", Start(live, now))
DoPause == Control("pause", Pause(live, now))
DoResume == Control("resume", Resume(live, now))
DoStop == Control("stop", Stop(live))
DoReset == Control("reset", Reset(live))

\* the speed control is moved to sp
DoSetSpeed(sp) ==
    /\ sp # speedCtl
    /\ ops < lim.ops
    /\ speedCtl' = sp
    /\ live' = IF live.id # 0 THEN SetSpeed(live, sp).e ELSE live
    /\ out' = << >>
    /\ ops' = ops + 1
    /\ act' = "setSpeed"
    /\ lastRead' = NoRead /\ lastSummary' = NoSummary /\ lastUpd' = NoUpd
    /\ UNCHANGED <<now, store, orphans, articleContent, dom, cancelled,
                   fg, bg, nextId, loads,
                   lim, storage, parser, sw, pf, rq>>

\* ------------------------------------------------------------------------
\* Timers and the clock
\* ------------------------------------------------------------------------
Pending == {e \in {live} \cup orphans : e.timer # NoTimer}

\* ------------------------------------------------------------------------
\* prefetchTomorrowArticle: PrefetchDelay ms after a daily acquisition has
\* been displayed, getFeaturedArticle is called for the day after; nothing
\* is attached to what it returns
\* ------------------------------------------------------------------------
PrefetchDone(U, i) ==
    [U EXCEPT !.pf[i] = [pc |-> "done", due |-> 0, title |-> "",
                         key |-> << >>]]

\* the timeout runs: getFeaturedArticle(tomorrow) up to its first
\* suspension
PrefetchTimerFire(i) ==
    /\ pf[i].pc = "timer"
    /\ pf[i].due <= now
    /\ LET c == CacheGet(Cur, TomorrowKey)
       IN  IF c.hit
           THEN Becomes(PrefetchDone(c.U, i))
           ELSE Becomes([c.U EXCEPT !.pf[i].pc = "summary", !.pf[i].due = 0,
                                    !.pf[i].key = TomorrowKey])
    /\ act' = "prefetchTimer"
    /\ UNCHANGED <<now, speedCtl, loads, ops, lim, storage, parser, sw, rq>>

PrefetchSummaryUnderToday(U, i, art) ==
    IF SummaryPlan(art) = "complete"
    THEN PrefetchDone(CachePut(U, FeaturedKey, art, DailyTTL), i)
    ELSE LET c == CacheGet(U, ArticleKey(art.title))
         IN  IF c.hit
             THEN PrefetchDone(CachePut(c.U, FeaturedKey, c.art, DailyTTL), i)
             ELSE [c.U EXCEPT !.pf[i].pc = "page"]

\* getFeaturedArticle(tomorrow) after the summary has arrived: a complete
\* summary is cached; for an abbreviated one getArticleByTitle is started
\* and the item is returned to a caller that ignores its
\* _fullArticlePromise
PrefetchSummary(U, i, art) ==
    IF SummaryPlan(art) = "complete"
    THEN PrefetchDone(CachePut(U, U.pf[i].key, art, DailyTTL), i)
    ELSE LET c == CacheGet(U, ArticleKey(art.title))
         IN  IF c.hit
             THEN PrefetchDone(CachePut(c.U, U.pf[i].key, c.art, DailyTTL), i)
             ELSE [c.U EXCEPT !.pf[i].pc = "page"]

\* the summary retrieval of a prefetch succeeds: tomorrow's article is
\* `title`, with extract x
PrefetchSummaryOk(i, title, x) ==
    /\ pf[i].pc = "summary"
    /\ Becomes(PrefetchSummary([Cur EXCEPT !.pf[i].title = title], i,
                               Art(title, x)))
    /\ act' = "prefetchSummaryOk"
    /\ UNCHANGED <<now, speedCtl, loads, ops, lim, storage, parser, sw, rq>>

\* the page retrieval of a prefetch succeeds: getArticleByTitle caches the
\* page under the named key, the then-callback under tomorrow's key
PrefetchPageOk(i, pg) ==
    /\ pf[i].pc = "page"
    /\ LET art == Art(pf[i].title, pg)
           U1 == CachePut(Cur, ArticleKey(pf[i].title), art, NamedTTL)
           U2 == CachePut(U1, pf[i].key, art, DailyTTL)
       IN  Becomes(PrefetchDone(U2, i))
    /\ act' = "prefetchPageOk"
    /\ UNCHANGED <<now, speedCtl, loads, ops, lim, storage, parser, sw, rq>>

\* a retrieval of a prefetch fails: the catch callbacks take the error
PrefetchFail(i) ==
    /\ pf[i].pc \in {"summary", "page"}
    /\ Becomes(PrefetchDone(Cur, i))
    /\ act' = "prefetchFail"
    /\ UNCHANGED <<now, speedCtl, loads, ops, lim, storage, parser, sw, rq>>

\* when the timeouts set and not yet run are due: those of the engines and
\* those of prefetchTomorrowArticle
DueTimes == {e.timer : e \in Pending}
                \cup {pf[i].due : i \in {j \in DOMAIN pf : pf[j].pc = "timer"}}

\* the pending timeout of the live engine fires
TimerFire ==
    /\ live.timer # NoTimer
    /\ live.timer <= now
    /\ LET r == TimerCallback(live, now)
       IN  /\ live' = Track(live, r, "timer", now)
           /\ out' = r.o
    /\ act' = "timer"
    /\ lastRead' = NoRead /\ lastSummary' = NoSummary /\ lastUpd' = NoUpd
    /\ UNCHANGED <<now, store, orphans, articleContent, dom, cancelled,
                   speedCtl, fg, bg, nextId, loads, ops,
                   lim, storage, parser, sw, pf, rq>>

\* the pending timeout of a replaced engine fires
OrphanTimerFire ==
    \E e \in orphans :
        /\ e.timer <= now
        /\ LET r == TimerCallback(e, now)
               e2 == Track(e, r, "timer", now)
           IN  /\ orphans' = (orphans \ {e}) \cup
                             (IF e2.timer # NoTimer THEN {e2} ELSE {})
               /\ out' = r.o
        /\ act' = "orphanTimer"
        /\ lastRead' = NoRead /\ lastSummary' = NoSummary /\ lastUpd' = NoUpd
        /\ UNCHANGED <<now, store, live, articleContent, dom, cancelled,
                       speedCtl, fg, bg, nextId, loads, ops,
                   lim, storage, parser, sw, pf, rq>>

\* time passes, never beyond a due timeout
Tick ==
    \E d \in ClockSteps :
        /\ now < lim.run
        /\ \A t \in DueTimes : t > now
        /\ now' = IF \E t \in DueTimes : t < now + d
                  THEN CHOOSE t \in DueTimes : \A u \in DueTimes : t <= u
                  ELSE now + d
        /\ out' = << >>
        /\ act' = "tick"
        /\ lastRead' = NoRead /\ lastSummary' = NoSummary /\ lastUpd' = NoUpd
        /\ UNCHANGED <<store, live, orphans, articleContent, dom, cancelled,
                       speedCtl, fg, bg, nextId, loads, ops,
                   lim, storage, parser, sw, pf, rq>>

\* the instant at which the calendar date changes next
Midnight ==
    DayBegin(DateOf(now)) + DayLength(DateOf(now)) - lim.cal.origin

\* the instants around which what the cache answers changes: the last one
\* at which an entry is valid and the one at which it expires, the last
\* one of today and the first one of tomorrow
JumpTimes ==
    UNION {{store[k].expiresAt - 1, store[k].expiresAt} : k \in DOMAIN store}
        \cup {Midnight - 1, Midnight}

\* something is under way that ends within seconds: a retrieval (its
\* abort timeout and its backoff timeouts are set), or a rendering that
\* waits for its next frame
Busy ==
    \/ fg.pc # "idle"
    \/ \E i \in DOMAIN bg : bg[i].st \in {"fetch", "merging"}
    \/ \E i \in DOMAIN pf : pf[i].pc \in {"summary", "page"}

\* nothing happens until the next timeout is due, while nothing is under
\* way
AwaitTimeout ==
    /\ DueTimes # {}
    /\ ~Busy
    /\ \A t \in DueTimes : t > now
    /\ now' = CHOOSE t \in DueTimes : \A u \in DueTimes : t <= u
    /\ out' = << >>
    /\ act' = "await"
    /\ lastRead' = NoRead /\ lastSummary' = NoSummary /\ lastUpd' = NoUpd
    /\ UNCHANGED <<store, live, orphans, articleContent, dom, cancelled,
                   speedCtl, fg, bg, nextId, loads, ops,
                   lim, storage, parser, sw, pf, rq>>

\* the steps of the prefetches with what Tomorrows lets the feed answer
PrefetchSteps ==
    \/ \E i \in DOMAIN pf : PrefetchTimerFire(i)
    \/ \E i \in DOMAIN pf, a \in Tomorrows : PrefetchSummaryOk(i, a.title, a)
    \/ \E i \in DOMAIN pf : PrefetchFail(i)

\* a long time passes, once, while nothing is scheduled and nothing is
\* under way: up to one of these instants
Jump ==
      \E t \in JumpTimes :
        /\ DueTimes = {}
        /\ ~Busy
        /\ now <= lim.run
        /\ t > now
        /\ now' = t
        /\ out' = << >>
        /\ act' = "jump"
        /\ lastRead' = NoRead /\ lastSummary' = NoSummary /\ lastUpd' = NoUpd
        /\ UNCHANGED <<store, live, orphans, articleContent, dom, cancelled,
                       speedCtl, fg, bg, nextId, loads, ops,
                   lim, storage, parser, sw, pf, rq>>

Next ==
    \/ BeginFeatured
    \/ \E x \in lim.extracts : SummaryOk(x)
    \/ LoadFail
    \/ \E name \in lim.names : BeginNamed(name)
    \/ \E pg \in lim.pages : PageOk(pg)
    \/ DisplayRendered
    \/ \E i \in DOMAIN bg, pg \in lim.pages : BgPageOk(i, pg)
    \/ \E i \in DOMAIN bg : BgPageFail(i)
    \/ \E i \in DOMAIN bg : MergeRendered(i)
    \/ DoStart
    \/ DoPause
    \/ DoResume
    \/ DoStop
    \/ DoReset
    \/ \E sp \in Speeds : DoSetSpeed(sp)
    \/ TimerFire
    \/ OrphanTimerFire
    \/ Tick

Spec == Init /\ [][Next]_vars

\* ------------------------------------------------------------------------
\* The same steps in a browser whose localStorage holds what an earlier
\* opening of the page cached: the page of "Moon" under its named key,
\* written 7 days less ExpLeft ms ago, so that it expires while the page
\* is open
\* ------------------------------------------------------------------------
EarlierStore ==
    [k \in {ArticleKey("Moon")} |->
        [article |-> Art("Moon", [chars |-> 900, syls |-> 6, blank |-> FALSE]),
         expiresAt |-> ExpLeft, writtenAt |-> ExpLeft - NamedTTL,
         ttl |-> NamedTTL]]

InitExpire ==
    /\ now = 0
    /\ lim = [run |-> MaxRun, daily |-> MaxDaily, named |-> MaxNamed, ops |-> MaxOps,
              extracts |-> Extracts, pages |-> Pages, names |-> Names,
              cal |-> PlainCalendar]
    /\ store = EarlierStore
    /\ live = NoEngine
    /\ orphans = {}
    /\ articleContent = NoArt
    /\ dom = << >>
    /\ cancelled = TRUE
    /\ speedCtl = DefaultSpeed
    /\ fg = [pc |-> "summary", kind |-> "daily", title |-> "", art |-> NoArt,
             p |-> 0, key |-> FeaturedKey]
    /\ bg = << >>
    /\ nextId = 1
    /\ loads = [daily |-> 1, named |-> 0]
    /\ ops = 0
    /\ out = << >>
    /\ act = "init"
    /\ lastRead = [NoRead EXCEPT !.key = FeaturedKey]
    /\ lastSummary = NoSummary
    /\ lastUpd = NoUpd
    /\ storage = StorageOk
    /\ parser = NoParse
    /\ sw = NoWorker
    /\ pf = << >>
    /\ rq = NoRequest

SpecExpire == InitExpire /\ [][Next]_vars

\* ------------------------------------------------------------------------
\* One session on its own: a named article of n syllables has been
\* acquired and displayed, and only the control surface, the timer and the
\* clock act
\* ------------------------------------------------------------------------
InitEngine ==
    \E n \in EngSizes :
        LET art == [title |-> TfaTitle, chars |-> 2 * n, syls |-> n,
                   blank |-> FALSE]
        IN  /\ now = 0
            /\ lim = [run |-> EngMaxRun, daily |-> 1, named |-> 1, ops |-> EngMaxOps,
                      extracts |-> {}, pages |-> {}, names |-> {},
              cal |-> PlainCalendar]
            /\ store = SetCachedItem(<< >>, ArticleKey(TfaTitle), art, NamedTTL, 0, FALSE)
            /\ live = PacingEngine(1, n, DefaultSpeed)
            /\ orphans = {}
            /\ articleContent = art
            /\ dom = <<art>>
            /\ cancelled = TRUE
            /\ speedCtl = DefaultSpeed
            /\ fg = FgIdle
            /\ bg = << >>
            /\ nextId = 2
            /\ loads = [daily |-> 0, named |-> 1]
            /\ ops = 0
            /\ out = << >>
            /\ act = "init"
            /\ lastRead = [NoRead EXCEPT !.key = ArticleKey(TfaTitle)]
            /\ lastSummary = NoSummary
            /\ lastUpd = NoUpd
            /\ storage = StorageOk
    /\ storage = StorageOk
    /\ parser = NoParse
    /\ sw = NoWorker
    /\ pf = << >>
    /\ rq = NoRequest

NextEngine ==
    \/ DoStart
    \/ DoPause
    \/ DoResume
    \/ DoStop
    \/ DoReset
    \/ \E sp \in Speeds : DoSetSpeed(sp)
    \/ TimerFire
    \/ Tick

SpecEngine == InitEngine /\ [][NextEngine]_vars

\* ------------------------------------------------------------------------
\* The cache and the acquisitions on their own: nobody touches the control
\* surface; time passes while nothing is under way only, up to the timeout
\* of a prefetch and, once, in one long wait
\* ------------------------------------------------------------------------
InitCache ==
    /\ now = 0
    /\ \E c \in CacheCalendars :
          lim = [run |-> PrefetchDelay, daily |-> CacheMaxDaily, named |-> CacheMaxNamed,
                 ops |-> 0, extracts |-> CacheExtracts, pages |-> CachePages,
                 names |-> CacheNames, cal |-> c]
    /\ store = << >>
    /\ live = NoEngine
    /\ orphans = {}
    /\ articleContent = NoArt
    /\ dom = << >>
    /\ cancelled = TRUE
    /\ speedCtl = DefaultSpeed
    /\ fg = [pc |-> "summary", kind |-> "daily", title |-> "", art |-> NoArt,
             p |-> 0, key |-> FeaturedKey]
    /\ bg = << >>
    /\ nextId = 1
    /\ loads = [daily |-> 1, named |-> 0]
    /\ ops = 0
    /\ out = << >>
    /\ act = "init"
    /\ lastRead = [NoRead EXCEPT !.key = FeaturedKey]
    /\ lastSummary = NoSummary
    /\ lastUpd = NoUpd
    /\ storage = StorageOk
    /\ parser = NoParse
    /\ sw = NoWorker
    /\ pf = << >>
    /\ rq = NoRequest

NextCache ==
    \/ BeginFeatured
    \/ \E x \in lim.extracts : SummaryOk(x)
    \/ LoadFail
    \/ \E name \in lim.names : BeginNamed(name)
    \/ \E pg \in lim.pages : PageOk(pg)
    \/ DisplayRendered
    \/ \E i \in DOMAIN bg, pg \in lim.pages : BgPageOk(i, pg)
    \/ \E i \in DOMAIN bg : BgPageFail(i)
    \/ \E i \in DOMAIN pf : PrefetchTimerFire(i)
    \/ \E i \in DOMAIN pf, a \in Tomorrows : PrefetchSummaryOk(i, a.title, a)
    \/ \E i \in DOMAIN pf : PrefetchFail(i)
    \/ AwaitTimeout
    \/ Jump

SpecCache == InitCache /\ [][NextCache]_vars

\* ------------------------------------------------------------------------
\* The same steps over one calendar and one spelling of the name, with a
\* third daily load: the daily key can be found in the cache while the
\* completion of an earlier load is still being retrieved
\* ------------------------------------------------------------------------
InitHit ==
    /\ now = 0
    /\ lim = [run |-> PrefetchDelay, daily |-> HitMaxDaily, named |-> HitMaxNamed,
              ops |-> 0, extracts |-> StoExtracts, pages |-> CachePages,
              names |-> Names, cal |-> PlainCalendar]
    /\ store = << >>
    /\ live = NoEngine
    /\ orphans = {}
    /\ articleContent = NoArt
    /\ dom = << >>
    /\ cancelled = TRUE
    /\ speedCtl = DefaultSpeed
    /\ fg = [pc |-> "summary", kind |-> "daily", title |-> "", art |-> NoArt,
             p |-> 0, key |-> FeaturedKey]
    /\ bg = << >>
    /\ nextId = 1
    /\ loads = [daily |-> 1, named |-> 0]
    /\ ops = 0
    /\ out = << >>
    /\ act = "init"
    /\ lastRead = [NoRead EXCEPT !.key = FeaturedKey]
    /\ lastSummary = NoSummary
    /\ lastUpd = NoUpd
    /\ storage = StorageOk
    /\ parser = NoParse
    /\ sw = NoWorker
    /\ pf = << >>
    /\ rq = NoRequest

SpecHit == InitHit /\ [][NextCache]_vars

\* ------------------------------------------------------------------------
\* The acquisitions over a localStorage that may throw (quota exceeded,
\* storage disabled, an entry that does not parse): the constructor has
\* run over a storage that did not throw, and from then on whether reads
\* and writes throw changes at any time
\* ------------------------------------------------------------------------
StorageChange(m) ==
    /\ m # storage
    /\ storage' = m
    /\ out' = << >>
    /\ act' = "storage"
    /\ lastRead' = NoRead /\ lastSummary' = NoSummary /\ lastUpd' = NoUpd
    /\ UNCHANGED <<now, store, live, orphans, articleContent, dom, cancelled,
                   speedCtl, fg, bg, nextId, loads, ops, lim, parser, sw, pf, rq>>

InitStorage ==
    /\ now = 0
    /\ lim = [run |-> 0, daily |-> StoMaxDaily, named |-> StoMaxNamed,
              ops |-> 0, extracts |-> StoExtracts, pages |-> StoPages,
              names |-> Names,
              cal |-> PlainCalendar]
    /\ store = << >>
    /\ live = NoEngine
    /\ orphans = {}
    /\ articleContent = NoArt
    /\ dom = << >>
    /\ cancelled = TRUE
    /\ speedCtl = DefaultSpeed
    /\ fg = [pc |-> "summary", kind |-> "daily", title |-> "", art |-> NoArt,
             p |-> 0, key |-> FeaturedKey]
    /\ bg = << >>
    /\ nextId = 1
    /\ loads = [daily |-> 1, named |-> 0]
    /\ ops = 0
    /\ out = << >>
    /\ act = "init"
    /\ lastRead = [NoRead EXCEPT !.key = FeaturedKey]
    /\ lastSummary = NoSummary
    /\ lastUpd = NoUpd
    /\ storage = StorageOk
    /\ parser = NoParse
    /\ sw = NoWorker
    /\ pf = << >>
    /\ rq = NoRequest

NextStorage ==
    \/ BeginFeatured
    \/ \E x \in lim.extracts : SummaryOk(x)
    \/ LoadFail
    \/ \E name \in lim.names : BeginNamed(name)
    \/ \E pg \in lim.pages : PageOk(pg)
    \/ DisplayRendered
    \/ \E i \in DOMAIN bg, pg \in lim.pages : BgPageOk(i, pg)
    \/ \E i \in DOMAIN bg : BgPageFail(i)
    \/ \E m \in [read : BOOLEAN, write : BOOLEAN] : StorageChange(m)

SpecStorage == InitStorage /\ [][NextStorage]_vars

\* ------------------------------------------------------------------------
\* One daily acquisition of a short abbreviated item: the session is played
\* to its end and beyond while the completion resolves and is merged
\* ------------------------------------------------------------------------
InitMerge ==
    /\ now = 0
    /\ lim = [run |-> MrgMaxRun, daily |-> 1, named |-> 0, ops |-> MrgMaxOps,
              extracts |-> MrgExtracts, pages |-> MrgPages, names |-> {},
              cal |-> PlainCalendar]
    /\ store = << >>
    /\ live = NoEngine
    /\ orphans = {}
    /\ articleContent = NoArt
    /\ dom = << >>
    /\ cancelled = TRUE
    /\ speedCtl = DefaultSpeed
    /\ fg = [pc |-> "summary", kind |-> "daily", title |-> "", art |-> NoArt,
             p |-> 0, key |-> FeaturedKey]
    /\ bg = << >>
    /\ nextId = 1
    /\ loads = [daily |-> 1, named |-> 0]
    /\ ops = 0
    /\ out = << >>
    /\ act = "init"
    /\ lastRead = [NoRead EXCEPT !.key = FeaturedKey]
    /\ lastSummary = NoSummary
    /\ lastUpd = NoUpd
    /\ storage = StorageOk
    /\ parser = NoParse
    /\ sw = NoWorker
    /\ pf = << >>
    /\ rq = NoRequest

NextMerge ==
    \/ \E x \in lim.extracts : SummaryOk(x)
    \/ LoadFail
    \/ \E i \in DOMAIN bg, pg \in lim.pages : BgPageOk(i, pg)
    \/ \E i \in DOMAIN bg : BgPageFail(i)
    \/ DoStart
    \/ DoPause
    \/ DoResume
    \/ DoStop
    \/ DoReset
    \/ \E sp \in Speeds : DoSetSpeed(sp)
    \/ TimerFire
    \/ Tick
    \/ \E i \in DOMAIN pf : PrefetchTimerFire(i)
    \/ \E i \in DOMAIN pf, a \in Tomorrows : PrefetchSummaryOk(i, a.title, a)
    \/ \E i \in DOMAIN pf : PrefetchFail(i)

SpecMerge == InitMerge /\ [][NextMerge]_vars

\* ------------------------------------------------------------------------
\* Properties of the pacing engine (SpecEngine)
\* ------------------------------------------------------------------------
Engines == {live} \cup orphans

Quiet == {"pause", "stop", "reset"}

\* C1: an engine over N syllables started from Idle at index 0 and left
\* alone since (no pause, resume, stop or reset) has emitted
\* onSyllableChange(0), onSyllableChange(1), ... in order, each one reveal
\* interval after the one before it, then onComplete() one interval after
\* the last syllable and nothing after it; while syllables remain the next
\* reveal is scheduled one interval ahead, and once onComplete() has been
\* emitted the engine is Idle and no reveal is scheduled.
C1_UndisturbedRun ==
    \A e \in Engines :
        e.und =>
            LET L == e.log
                m == Len(L)
            IN  /\ m >= 1
                /\ m <= e.n + 1
                /\ \A j \in 1..m :
                      IF j <= e.n
                      THEN L[j].k = "syl" /\ L[j].i = j - 1
                      ELSE L[j].k = "done"
                /\ \A j \in 2..m : L[j].at = L[j-1].at + L[j-1].sp
                /\ IF m = e.n + 1
                   THEN (~e.isPlaying) /\ (~e.isPaused) /\ e.timer = NoTimer
                   ELSE /\ e.isPlaying /\ ~e.isPaused
                        /\ e.currentIndex = m
                        /\ e.timer = L[m].at + L[m].sp

\* an undisturbed run over three syllables has completed
C1_Witness ==
    /\ live.und
    /\ live.n = 3
    /\ Len(live.log) = 4
    /\ live.log[4].k = "done"
    /\ out = <<Done(live)>>

\* C2: the elapsed time read immediately after a resume() that found the
\* engine paused is the value pause() froze (now - startTime at the
\* pause), and every read while the engine is Paused returns that value.
C2_ElapsedFrozen ==
    /\ live.isPaused => GetElapsedTime(live, now) = live.frozen
    /\ (act = "resume" /\ live.ctl = "resumed")
          => GetElapsedTime(live, now) = live.frozen

\* resume() has just ended a pause that lasted a while and had begun in
\* the middle of a reveal interval
C2_Witness ==
    /\ act = "resume"
    /\ live.ctl = "resumed"
    /\ live.frozen > 0
    /\ now > live.pausedAt
    /\ live.isPlaying /\ ~live.isPaused

\* C3: once pause(), stop() or reset() has returned, the engine has no
\* reveal scheduled, and as long as that call is the last control call
\* made on the engine no step emits a notification, except that reset()
\* itself emits its preview onSyllableChange(0); only start() or resume()
\* make the engine emit again.
C3_QuietAfterHalt ==
    [][ /\ live'.ctl \in Quiet => live'.timer = NoTimer
        /\ (live.ctl \in Quiet /\ out' # << >>)
              => \/ act' \in {"start", "resume"}
                 \/ act' = "reset" /\ out' = <<Syl(live, 0)>> ]_vars

\* a pause() made while a reveal was pending, seen after the moment that
\* reveal was due
C3_Witness ==
    /\ live.ctl = "pause"
    /\ live.isPaused
    /\ live.currentIndex < live.n
    /\ now >= live.pausedAt + DefaultSpeed

\* ------------------------------------------------------------------------
\* Properties of the acquisitions and of the merge (Spec)
\* ------------------------------------------------------------------------
Max(a, b) == IF a > b THEN a ELSE b

\* C4: a completion that was still pending when a later daily acquisition
\* began never gets updateArticleContent run for it, also when the later
\* acquisition returned an abbreviated item with a completion of its own.
C4_SupersededByDaily ==
    \A i \in DOMAIN bg : ~(bg[i].supDaily /\ bg[i].ran)

\* C5: a completion that was still pending when a named acquisition began
\* is never merged into the live session, whether that acquisition
\* succeeded or failed.
C5_SupersededByNamed ==
    \A i \in DOMAIN bg : ~(bg[i].supNamed /\ bg[i].applied)

\* C6: an applied merge leaves the session in the state it captured: a
\* Paused session is Paused afterwards, with no reveal scheduled and none
\* emitted by the merge; a Playing session is Playing; an Idle session is
\* Idle.
C6_MergeKeepsState ==
    lastUpd.kind = "merged" =>
        /\ lastUpd.cap.state = "Paused"
              => StateOf(live) = "Paused" /\ live.timer = NoTimer /\ out = << >>
        /\ lastUpd.cap.state = "Playing" => StateOf(live) = "Playing"
        /\ lastUpd.cap.state = "Idle" => StateOf(live) = "Idle"

\* C7: when the handler of an un-cancelled completion runs against a live
\* document of C > 0 syllables with a candidate of N syllables, the
\* candidate is discarded exactly when 100 * (N - C) / C < 20, and a
\* discarded candidate leaves the live engine (syllables, currentIndex,
\* flags, scheduled reveal, elapsed baseline), the article and the
\* rendered text as they were and emits nothing.
C7_DiscardThreshold ==
    (lastUpd.kind \in {"empty", "discarded", "merging"} /\ lastUpd.C > 0) =>
        /\ lastUpd.kind \in {"empty", "discarded"}
              <=> 100 * (lastUpd.N - lastUpd.C) < MergeThreshold * lastUpd.C
        /\ lastUpd.kind \in {"empty", "discarded"} =>
              /\ live = lastUpd.before
              /\ articleContent = lastUpd.content
              /\ dom = lastUpd.shown
              /\ bg[lastUpd.i].st = "done"
              /\ ~bg[lastUpd.i].applied

\* a candidate 19.3% longer than a playing document has been discarded
C7_Witness ==
    /\ lastUpd.kind = "discarded"
    /\ lastUpd.C = 150
    /\ lastUpd.N = 179
    /\ StateOf(live) = "Playing"
    /\ live.timer # NoTimer

\* C8: in every applied merge the position given to the new engine is the
\* captured currentIndex clamped into [0, newLength - 1] and its
\* pausedTime is the captured value, whatever the state of the old session
\* was.
C8_MergeRestoresPosition ==
    (lastUpd.kind = "merged" /\ lastUpd.cap.state # "none") =>
        /\ lastUpd.restored.currentIndex =
              Max(0, Min(lastUpd.cap.currentIndex, lastUpd.N - 1))
        /\ lastUpd.restored.pausedTime = lastUpd.cap.elapsedTime

\* ------------------------------------------------------------------------
\* Properties of the cache and of getFeaturedArticle (SpecCache)
\* ------------------------------------------------------------------------
\* C9: a read of a key returns the article written under it exactly when
\* an entry is present and the read happens before the time of the write
\* plus the TTL; at that instant and later the read is a miss and removes
\* the entry; a read of an absent key is a miss.
C9_CacheTTL ==
    lastRead.key # << >> =>
        /\ lastRead.hit
              <=> (lastRead.had /\ lastRead.at < lastRead.writtenAt + lastRead.ttl)
        /\ lastRead.hit =>
              /\ lastRead.art = lastRead.written
              /\ lastRead.key \in DOMAIN store
              /\ store[lastRead.key].article = lastRead.written
              /\ store[lastRead.key].writtenAt = lastRead.writtenAt
        /\ (~lastRead.hit) => lastRead.key \notin DOMAIN store

\* an entry has been read at the very instant it expires: a miss, and the
\* entry is gone
C9_Witness ==
    /\ lastRead.had
    /\ lastRead.at = lastRead.writtenAt + lastRead.ttl
    /\ ~lastRead.hit
    /\ lastRead.key \notin DOMAIN store

\* C10: on a miss of the daily cache, a summary whose text is longer than
\* 800 characters is written to the daily cache and returned without a
\* pendingCompletion and without a background retrieval; a summary of 800
\* characters or fewer (a missing text included) is returned as it is with
\* a pendingCompletion attached, and unless the named cache already holds
\* the page the background retrieval is still unresolved at that point;
\* the item returned, unless its text is blank (displayArticle() then
\* reports an error and records nothing), is the one displayed, until a
\* completion that was resolved from the named cache is merged over it.
C10_SummaryThreshold ==
    lastSummary.chars >= 0 =>
        /\ lastSummary.returned.chars = lastSummary.chars
        /\ ~lastSummary.returned.blank
              => \/ articleContent = lastSummary.returned
                 \/ lastUpd.kind \in {"merging", "merged"}
        /\ IF lastSummary.chars > ExtractThreshold
           THEN /\ ~lastSummary.promise
                /\ Len(bg) = lastSummary.nbg
                /\ lastSummary.key = FeaturedKey
                /\ lastSummary.key \in DOMAIN store
                /\ store[lastSummary.key].article = lastSummary.returned
                /\ store[lastSummary.key].expiresAt = now + DailyTTL
           ELSE /\ lastSummary.promise
                /\ Len(bg) = lastSummary.nbg + 1
                /\ bg[Len(bg)].extract = lastSummary.returned
                     \/ bg[Len(bg)].st = "done"
                /\ \/ bg[Len(bg)].st = "fetch"
                   \/ lastRead.hit /\ lastRead.key = ArticleKey(TfaTitle)

\* a summary of exactly 800 characters has been returned and displayed
\* while its background retrieval is in flight
C10_Witness ==
    /\ lastSummary.chars = ExtractThreshold
    /\ lastSummary.promise
    /\ bg[Len(bg)].st = "fetch"
    /\ FeaturedKey \notin DOMAIN store
    /\ articleContent = lastSummary.returned

\* ------------------------------------------------------------------------
\* Failures of retrievals
\* ------------------------------------------------------------------------
\* the entries of the store a read at time t would return
ValidEntries(st, t) ==
    [k \in {q \in DOMAIN st : IsCacheValid(st[q], t)} |-> st[k]]

\* the store without the entry under key, should that entry have expired
\* by the time t
WithoutExpired(st, key, t) ==
    [k \in {q \in DOMAIN st : q = key => IsCacheValid(st[q], t)} |-> st[k]]

\* the key a foreground acquisition that has just begun has read
KeyBegun == IF act' = "loadFeatured" THEN FeaturedKey
            ELSE ArticleKey(fg'.title)

\* C11: the steps of a foreground acquisition that fails (its beginning,
\* which finds nothing valid in the cache, and the failure of its
\* retrieval) leave the live engine with all its fields, the replaced
\* engines, the article, the rendered text and every cache entry as they
\* were, but for the entry under the key the acquisition reads, which the
\* read removes if it has expired (and leaves if localStorage throws); a
\* Playing session is still Playing with the same reveal scheduled.
C11_FailedLoadKeepsState ==
    [][ /\ (\/ act' = "loadFail"
            \/ act' \in {"loadFeatured", "loadByTitle"}
                 /\ fg'.pc \in {"summary", "page"})
           => /\ live' = live
              /\ orphans' = orphans
              /\ articleContent' = articleContent
              /\ dom' = dom
              /\ out' = << >>
              /\ ValidEntries(store', now') = ValidEntries(store, now)
        /\ act' = "loadFail" => store' = store
        /\ (act' \in {"loadFeatured", "loadByTitle"}
              /\ fg'.pc \in {"summary", "page"})
           => store' = IF storage.read THEN store
                       ELSE WithoutExpired(store, KeyBegun, now) ]_vars

\* C11 as it is claimed: the steps of a foreground acquisition that fails
\* leave every cache entry as it was.
C11_EveryEntryKept ==
    [][ (\/ act' = "loadFail"
         \/ act' \in {"loadFeatured", "loadByTitle"}
              /\ fg'.pc \in {"summary", "page"})
        => store' = store ]_vars

\* the named acquisition of "Moon" has failed while a session was playing:
\* its read has removed the entry of the earlier opening, which had
\* expired, and the daily entry written before that is still there
C11_Witness ==
    /\ act = "loadFail"
    /\ loads = [daily |-> 1, named |-> 1]
    /\ StateOf(live) = "Playing"
    /\ live.timer # NoTimer
    /\ Shown.syls > 0
    /\ FeaturedKey \in DOMAIN store
    /\ store[FeaturedKey].writtenAt < ExpLeft
    /\ ArticleKey("Moon") \notin DOMAIN store

\* C12: when the background retrieval of a completion fails, the
\* completion resolves with its abbreviated item (the handler, if it runs,
\* is given that item), the store is not written, and a session whose
\* rendered text is an abbreviated item keeps its engine with all its
\* fields, its article and its rendered text, and emits nothing.
C12_BackgroundFailure ==
    [][ act' = "bgFail" =>
          \A i \in DOMAIN bg :
            (bg[i].st = "fetch" /\ bg'[i].st # "fetch") =>
              /\ store' = store
              /\ bg'[i].st \in {"resolved", "done", "merging"}
              /\ bg'[i].st = "resolved" => bg'[i].val = bg[i].extract
              /\ lastUpd'.kind # "none"
                    => lastUpd'.i = i /\ lastUpd'.N = bg[i].extract.syls
              /\ (Shown.syls > 0 /\ Shown.chars <= ExtractThreshold)
                    => /\ live' = live
                       /\ articleContent' = articleContent
                       /\ dom' = dom
                       /\ out' = << >>
                       /\ bg'[i].st # "merging" ]_vars

\* C13: a localStorage that throws never makes an acquisition fail.  When
\* reads throw, the beginning of an acquisition behaves as on a miss: the
\* retrieval is started, whatever the store holds, and the store is left
\* alone.  When writes throw, the steps that write the cache leave the
\* store as it was.  In both cases the summary or page retrieved is what
\* the acquisition goes on to display.
C13_ThrowingStorage ==
    [][ /\ (storage.read /\ act' \in {"loadFeatured", "loadByTitle"})
              => fg'.pc \in {"summary", "page"} /\ store' = store
        /\ (storage.read /\ act' = "summaryOk" /\ lastSummary'.promise)
              => bg'[Len(bg')].st = "fetch"
        /\ (storage.write /\ act' \in {"summaryOk", "pageOk", "bgOk"})
              => store' = store
        /\ act' = "summaryOk"
              => /\ fg'.pc \in {"idle", "render"}
                 /\ lastSummary'.returned.chars = lastSummary'.chars
                 /\ \/ articleContent' = lastSummary'.returned
                    \/ lastUpd'.kind \in {"merging", "merged"}
        /\ act' = "pageOk"
              => /\ fg'.pc \in {"idle", "render"}
                 /\ articleContent' \in {Art(TfaTitle, pg) : pg \in lim.pages} ]_vars

\* a named acquisition has retrieved and displayed its page although the
\* store held the page and reads threw, and its write threw as well
C13_Witness ==
    /\ act = "pageOk"
    /\ storage.read /\ storage.write
    /\ ArticleKey(TfaTitle) \in DOMAIN store
    /\ Shown.syls > 0
    /\ live.id # 0

\* ------------------------------------------------------------------------
\* Properties of the control surface over sessions that are merged
\* (SpecMerge)
\* ------------------------------------------------------------------------
\* C14: every engine, live or replaced, has 0 <= currentIndex <= the number
\* of its syllables, after any sequence of control calls, reveals and
\* merges.
C14_IndexInRange ==
    \A e \in Engines : 0 <= e.currentIndex /\ e.currentIndex <= e.n

\* the engine a merge installed has been played to its end
C14_Witness ==
    /\ live.id = 2
    /\ live.n = 3
    /\ live.currentIndex = live.n
    /\ act = "timer"
    /\ out = <<Done(live)>>

\* ------------------------------------------------------------------------
\* Contracts of the control calls (SpecEngine)
\* ------------------------------------------------------------------------
\* the fields of a PacingEngine, without the history fields
Fields(e) == <<e.id, e.n, e.currentIndex, e.isPlaying, e.isPaused, e.speed,
               e.timer, e.startTime, e.pausedTime>>

\* C15: start() on a session that is not Playing (Idle, Paused, or Idle
\* after completion) makes it Playing with startTime = now - pausedTime
\* and a reveal scheduled.
C15_StartFromAnyState ==
    [][ (act' = "start" /\ StateOf(live) # "Playing")
          => /\ StateOf(live') = "Playing"
             /\ live'.startTime = now - live.pausedTime
             /\ live'.timer # NoTimer ]_vars

\* C16: pause() on a session that is not Playing, resume() on a session
\* that is not Paused and start() on a session that is Playing change no
\* field of the engine, its pending timeout included, and emit nothing.
C16_NoOpCalls ==
    [][ (\/ act' = "pause" /\ StateOf(live) # "Playing"
         \/ act' = "resume" /\ StateOf(live) # "Paused"
         \/ act' = "start" /\ StateOf(live) = "Playing")
          => Fields(live') = Fields(live) /\ out' = << >> ]_vars

\* resume() has been called on a Playing session with a reveal pending
C16_Witness ==
    /\ act = "resume"
    /\ live.ctl = "resume"
    /\ StateOf(live) = "Playing"
    /\ live.timer > now
    /\ live.currentIndex > 0

\* C17: reset() in any state leaves the engine Idle with currentIndex 0,
\* pausedTime 0 and no timeout pending, emits onSyllableChange(0) once and
\* nothing else; a start() that follows it (whatever time has passed)
\* reveals index 0 again, and the elapsed time read then is 0.
C17_Reset ==
    [][ /\ act' = "reset"
              => /\ StateOf(live') = "Idle"
                 /\ live'.currentIndex = 0
                 /\ live'.pausedTime = 0
                 /\ live'.timer = NoTimer
                 /\ out' = <<Syl(live, 0)>>
                 /\ GetElapsedTime(live', now') = 0
        /\ (live.ctl = "reset" /\ act' = "start")
              => /\ out' = <<Syl(live, 0)>>
                 /\ StateOf(live') = "Playing"
                 /\ GetElapsedTime(live', now') = 0 ]_vars

\* reset() has been called on a session that had been paused after some
\* elapsed time and had revealed syllables
C17_Witness ==
    /\ act = "reset"
    /\ live.frozen > 0
    /\ live.pausedTime = 0
    /\ live.currentIndex = 0
    /\ out = <<Syl(live, 0)>>

\* C18: stop() in any state leaves the engine Idle with no timeout
\* pending, leaves currentIndex, pausedTime, startTime, speed and the
\* syllables as they were, and emits nothing.
C18_Stop ==
    [][ act' = "stop"
          => /\ StateOf(live') = "Idle"
             /\ live'.timer = NoTimer
             /\ live'.currentIndex = live.currentIndex
             /\ live'.pausedTime = live.pausedTime
             /\ live'.startTime = live.startTime
             /\ live'.speed = live.speed
             /\ live'.n = live.n /\ live'.id = live.id
             /\ out' = << >> ]_vars

\* stop() has been called on a session with revealed syllables and elapsed
\* time accumulated by a pause
C18_Witness ==
    /\ act = "stop"
    /\ StateOf(live) = "Idle"
    /\ live.currentIndex > 0
    /\ live.pausedTime > 0

\* C19: setSpeed(ms) changes the speed and nothing else, the pending
\* timeout included, and emits nothing; a timeout fires at the time it was
\* scheduled for, and every timeout scheduled is due one interval of the
\* speed then in force after the time of scheduling.
C19_SetSpeed ==
    [][ /\ act' = "setSpeed"
              => /\ live' = [live EXCEPT !.speed = speedCtl']
                 /\ out' = << >>
        /\ act' = "timer" => now' = live.timer
        /\ (live'.timer # NoTimer /\ live'.timer # live.timer)
              => live'.timer = now' + live'.speed ]_vars

\* the speed has been changed to 500 while a reveal scheduled at speed
\* 1000 is pending
C19_Witness ==
    /\ act = "setSpeed"
    /\ StateOf(live) = "Playing"
    /\ live.speed = 500
    /\ live.timer = now + 1000

\* ------------------------------------------------------------------------
\* Replaced engines (Spec)
\* ------------------------------------------------------------------------
\* C20: an engine that displayArticle or updateArticleContent has replaced
\* has no timeout pending and emits nothing, whatever control calls were
\* made while the new text was being rendered, and at no time do two
\* engines have a timeout pending.
C20_ReplacedEngineSilent ==
    /\ \A e \in orphans : e.timer = NoTimer
    /\ act = "orphanTimer" => out = << >>
    /\ Cardinality(Pending) <= 1

\* ------------------------------------------------------------------------
\* SyllableParser.parse on its own: a text of at most MaxText characters
\* is handed to parse(), which returns its document
\* ------------------------------------------------------------------------
appVars == <<now, store, live, orphans, articleContent, dom, cancelled,
             speedCtl, fg, bg, nextId, loads, ops, out, act, lim, lastRead,
             lastSummary, lastUpd, storage>>

\* the fields of the UIController as its constructor assigns them, up to
\* its call of loadFeaturedArticleOnInit(): pendingPromiseCancelled is false
InitApp ==
    /\ now = 0
    /\ lim = [run |-> 0, daily |-> 0, named |-> 0, ops |-> 0,
              extracts |-> {}, pages |-> {}, names |-> {},
              cal |-> PlainCalendar]
    /\ store = << >>
    /\ live = NoEngine
    /\ orphans = {}
    /\ articleContent = NoArt
    /\ dom = << >>
    /\ cancelled = FALSE
    /\ speedCtl = DefaultSpeed
    /\ fg = FgIdle
    /\ bg = << >>
    /\ nextId = 1
    /\ loads = [daily |-> 0, named |-> 0]
    /\ ops = 0
    /\ out = << >>
    /\ act = "init"
    /\ lastRead = NoRead
    /\ lastSummary = NoSummary
    /\ lastUpd = NoUpd
    /\ storage = StorageOk

DoParse ==
    /\ parser.pc = "called"
    /\ parser' = [parser EXCEPT !.pc = "returned", !.doc = Parse(parser.hypher, parser.text)]
    /\ UNCHANGED <<appVars, sw, pf, rq>>

InitParse ==
    /\ InitApp
    /\ \E text \in Texts, hypher \in Hyphers :
          parser = [pc |-> "called", text |-> text, doc |-> NoDoc,
                    hypher |-> hypher]
    /\ sw = NoWorker
    /\ pf = << >>
    /\ rq = NoRequest

NextParse == DoParse

SpecParse == InitParse /\ [][NextParse]_vars

\* ------------------------------------------------------------------------
\* C21  Round trip of parse()
\* ------------------------------------------------------------------------
RECURSIVE Flatten(_)
Flatten(ss) == IF ss = << >> THEN << >> ELSE Head(ss) \o Flatten(Tail(ss))

RECURSIVE Reconstruct(_)
Reconstruct(wordMap) ==
    IF wordMap = << >> THEN << >>
    ELSE Flatten(Head(wordMap).syllables) \o Head(wordMap).following
             \o Reconstruct(Tail(wordMap))

\* C21: for every text, the syllables of each wordMap entry followed by
\* its `following`, concatenated in order, give back the text with its
\* punctuation runs normalized, texts that begin with a non-word
\* character included.
C21_RoundTrip ==
    parser.pc = "returned" =>
        Reconstruct(parser.doc.wordMap) = CleanedText(parser.text)

\* ------------------------------------------------------------------------
\* C22  Indices of the wordMap
\* ------------------------------------------------------------------------
\* C22: in every parse result the first entry starts at index 0, each entry
\* starts right after the one before it, an entry spans as many indices as
\* it has syllables, the last entry ends at the last syllable, and the
\* entries' syllables in order are the document's syllables.
C22_WordMapIndices ==
    parser.pc = "returned" =>
        LET wordMap == parser.doc.wordMap
            syllables == parser.doc.syllables
        IN  /\ wordMap # << >> => wordMap[1].startIndex = 0
            /\ \A i \in 1..(Len(wordMap) - 1) :
                   wordMap[i].endIndex + 1 = wordMap[i + 1].startIndex
            /\ \A i \in 1..Len(wordMap) :
                   wordMap[i].endIndex - wordMap[i].startIndex + 1
                       = Len(wordMap[i].syllables)
            /\ wordMap # << >> =>
                   wordMap[Len(wordMap)].endIndex = Len(syllables) - 1
            /\ Flatten([i \in 1..Len(wordMap) |-> wordMap[i].syllables])
                   = syllables

C22_Witness ==
    /\ parser.pc = "returned"
    /\ Len(parser.doc.wordMap) >= 2
    /\ \E i \in 1..Len(parser.doc.wordMap) :
           /\ Len(parser.doc.wordMap[i].syllables) >= 2
           /\ Len(parser.doc.wordMap[i].word) >= 3
           /\ \E k \in 1..Len(parser.doc.wordMap[i].word) :
                  parser.doc.wordMap[i].word[k] \in LowerLetters

\* ------------------------------------------------------------------------
\* Named acquisitions on their own: after the daily acquisition of the
\* constructor the user loads articles by title, in either spelling; the
\* prefetch of the daily acquisition runs, and there is at most one long
\* wait, up to the expiry of a cache entry
\* ------------------------------------------------------------------------
InitNamed ==
    /\ now = 0
    /\ lim = [run |-> PrefetchDelay, daily |-> 1, named |-> NamMaxNamed,
              ops |-> 0,
              extracts |-> NamExtracts, pages |-> NamPages,
              names |-> CacheNames,
              cal |-> PlainCalendar]
    /\ store = << >>
    /\ live = NoEngine
    /\ orphans = {}
    /\ articleContent = NoArt
    /\ dom = << >>
    /\ cancelled = TRUE
    /\ speedCtl = DefaultSpeed
    /\ fg = [pc |-> "summary", kind |-> "daily", title |-> "", art |-> NoArt,
             p |-> 0, key |-> FeaturedKey]
    /\ bg = << >>
    /\ nextId = 1
    /\ loads = [daily |-> 1, named |-> 0]
    /\ ops = 0
    /\ out = << >>
    /\ act = "init"
    /\ lastRead = [NoRead EXCEPT !.key = FeaturedKey]
    /\ lastSummary = NoSummary
    /\ lastUpd = NoUpd
    /\ storage = StorageOk
    /\ parser = NoParse
    /\ sw = NoWorker
    /\ pf = << >>
    /\ rq = NoRequest

NextNamed ==
    \/ \E name \in lim.names : BeginNamed(name)
    \/ \E pg \in lim.pages : PageOk(pg)
    \/ LoadFail
    \/ \E x \in lim.extracts : SummaryOk(x)
    \/ \E i \in DOMAIN bg, pg \in lim.pages : BgPageOk(i, pg)
    \/ \E i \in DOMAIN bg : BgPageFail(i)
    \/ \E i \in DOMAIN pf : PrefetchTimerFire(i)
    \/ \E i \in DOMAIN pf, a \in Tomorrows : PrefetchSummaryOk(i, a.title, a)
    \/ \E i \in DOMAIN pf : PrefetchFail(i)
    \/ AwaitTimeout
    \/ Jump

SpecNamed == InitNamed /\ [][NextNamed]_vars

\* ------------------------------------------------------------------------
\* C23  Case-folded cache key of getArticleByTitle
\* ------------------------------------------------------------------------
\* the entries cached for a name, whatever the spelling of the key
EntriesFor(st, name) ==
    {k \in DOMAIN st : k[1] = "article" /\ ToLowerCase(k[2]) = ToLowerCase(name)}

\* C23: a named acquisition made less than 7 days after an article was
\* cached for a name with the same lower-case form returns the cached item
\* and retrieves nothing; on a miss it performs one retrieval; and no
\* named acquisition ever attaches a background completion.
C23_CaseFoldedKey ==
    [][ /\ act' = "loadByTitle" =>
             LET fresh == {k \in EntriesFor(store, lastRead'.key[2]) :
                              now - store[k].writtenAt < NamedTTL}
             IN  /\ fresh # {} =>
                        /\ lastRead'.hit
                        /\ \E k \in fresh : lastRead'.art = store[k].article
                        /\ fg'.pc # "page"
                        /\ store' = store
                 /\ fresh = {} =>
                        /\ ~lastRead'.hit
                        /\ fg'.pc = "page" /\ fg'.kind = "named"
                 /\ Len(bg') = Len(bg)
        /\ (fg.pc = "page" /\ act' \in {"pageOk", "loadFail"}) =>
             /\ fg'.pc # "page"
             /\ Len(bg') = Len(bg)
             /\ act' = "pageOk" =>
                    /\ EntriesFor(store', fg.title) # {}
                    /\ \A k \in EntriesFor(store', fg.title) :
                           store'[k].writtenAt = now
      ]_vars

C23_Witness ==
    /\ act = "loadByTitle"
    /\ loads.named >= 2
    /\ lastRead.hit
    /\ lastRead.key[1] = "article"
    /\ now = lastRead.writtenAt + NamedTTL - 1

\* ------------------------------------------------------------------------
\* The service worker on its own: installed at time 0 while online, it
\* answers GET requests; the network comes and goes and time passes
\* ------------------------------------------------------------------------
\* the 'fetch' event for a GET request: the handler is called and awaits
\* caches.open(CACHE_NAME)
SwFetch(req) ==
    /\ sw.reqs < SwMaxRequests
    /\ sw' = [sw EXCEPT !.run = @ (+) SetToBag({[req |-> req,
                                    kind |-> IF IsWikipediaAPI(req)
                                             THEN "api" ELSE "static",
                                    pc |-> "open", cache |-> 0,
                                    cached |-> NoResponse]}),
                        !.reqs = @ + 1, !.last = NoAnswer]
    /\ UNCHANGED <<appVars, parser, pf, rq>>

\* caches.open(CACHE_NAME) answers handler h with the Cache object that
\* has the name now; the handler awaits cache.match(request)
SwOpened(h) ==
    /\ BagIn(h, sw.run)
    /\ h.pc = "open"
    /\ sw' = [sw EXCEPT !.run = Returned(sw, h) (+)
                                  SetToBag({[h EXCEPT !.pc = "match",
                                               !.cache = Len(sw.cache)]}),
                        !.last = NoAnswer]
    /\ UNCHANGED <<appVars, parser, pf, rq>>

\* cache.match(request) answers handler h with what its Cache object
\* holds now; the handler runs up to its answer from the cache or to its
\* await of the network
SwMatched(h) ==
    /\ BagIn(h, sw.run)
    /\ h.pc = "match"
    /\ sw' = IF h.kind = "api"
             THEN HandleWikipediaAPI(sw, h, now)
             ELSE HandleStaticAsset(sw, h, now)
    /\ UNCHANGED <<appVars, parser, pf, rq>>

\* the fetch(request) handler h awaits settles (ok: response.ok of the
\* response, should one arrive): cache.put is called when response.ok and
\* the response is returned; when the fetch throws, handleWikipediaAPI
\* returns the cached response it read, if it read one, and rethrows
\* otherwise, and handleStaticAsset rejects
SwResponse(h, ok) ==
    /\ BagIn(h, sw.run)
    /\ h.pc = "fetch"
    /\ h.kind # "reval"
    /\ LET W1 == [sw EXCEPT !.run = Returned(sw, h)]
       IN  sw' = IF sw.online
                 THEN [(IF ok THEN PutCalled(W1, h, now) ELSE W1)
                          EXCEPT !.last = Answer(sw, h.req, "network",
                                                 h.cached, now)]
                 ELSE IF h.kind = "api" /\ h.cached.has
                 THEN [W1 EXCEPT !.last = Answer(sw, h.req, "cache",
                                                 h.cached, now)]
                 ELSE [W1 EXCEPT !.last = Answer(sw, h.req, "error",
                                                 h.cached, now)]
    /\ UNCHANGED <<appVars, parser, pf, rq>>

\* the fetch(request) of a background revalidation settles: cache.put is
\* called when response.ok, nothing otherwise
SwRevalidated(h, ok) ==
    /\ BagIn(h, sw.run)
    /\ h.pc = "fetch"
    /\ h.kind = "reval"
    /\ LET W1 == [sw EXCEPT !.run = Returned(sw, h), !.last = NoAnswer]
       IN  sw' = IF sw.online /\ ok THEN PutCalled(W1, h, now) ELSE W1
    /\ UNCHANGED <<appVars, parser, pf, rq>>

\* a cache.put completes: the Cache object it was called on holds the
\* response under the request, in place of what it held
SwPut(p) ==
    /\ p \in sw.puts
    /\ sw' = [sw EXCEPT !.cache[p.cache][p.req] = p.response,
                        !.puts = @ \ {p}, !.last = NoAnswer]
    /\ UNCHANGED <<appVars, parser, pf, rq>>

\* the 'message' event with {type: 'CLEAR_CACHE'}: caches.delete(CACHE_NAME)
\* takes the name from the Cache object, which the handlers that opened
\* it keep with what it holds; the next caches.open(CACHE_NAME), that of
\* the listener or that of a handler, finds an empty cache under the name
SwClearCache ==
    /\ Len(sw.cache) <= SwMaxClears
    /\ sw' = [sw EXCEPT !.cache = Append(@, [r \in Requests |-> NoResponse]), !.last = NoAnswer]
    /\ UNCHANGED <<appVars, parser, pf, rq>>

\* the network becomes reachable or unreachable
SwNetwork ==
    /\ sw' = [sw EXCEPT !.online = ~@, !.last = NoAnswer]
    /\ UNCHANGED <<appVars, parser, pf, rq>>

\* time passes
SwWait(d) ==
    /\ sw.waits < SwMaxWaits
    /\ now' = now + d
    /\ sw' = [sw EXCEPT !.waits = @ + 1, !.last = NoAnswer]
    /\ UNCHANGED <<store, live, orphans, articleContent, dom, cancelled,
                   speedCtl, fg, bg, nextId, loads, ops, out, act, lim,
                   lastRead, lastSummary, lastUpd, storage, parser, pf, rq>>

InitWorker ==
    /\ InitApp
    /\ parser = NoParse
    /\ sw = [NoWorker EXCEPT !.online = TRUE,
                             !.cache[1]["static"] = Installed(0)]
    /\ pf = << >>
    /\ rq = NoRequest

NextWorker ==
    \/ \E req \in Requests : SwFetch(req)
    \/ \E h \in BagToSet(sw.run) : SwOpened(h)
    \/ \E h \in BagToSet(sw.run) : SwMatched(h)
    \/ \E h \in BagToSet(sw.run), ok \in BOOLEAN : SwResponse(h, ok)
    \/ \E h \in BagToSet(sw.run), ok \in BOOLEAN : SwRevalidated(h, ok)
    \/ \E p \in sw.puts : SwPut(p)
    \/ SwClearCache
    \/ SwNetwork
    \/ \E d \in SwWaits : SwWait(d)

SpecWorker == InitWorker /\ [][NextWorker]_vars

\* ------------------------------------------------------------------------
\* C24  Age of the cached responses the service worker serves
\* ------------------------------------------------------------------------
\* C24: while the network is reachable the service worker never answers
\* with a cached response that is older than the TTL of its class (24
\* hours for the featured API, 7 days for the other API requests and for
\* static assets); such a response is served only when the network fetch
\* fails.
C24_NoStaleWhileOnline ==
    (sw.last.from = "cache" /\ sw.last.age > ClassTTL(sw.last.req))
        => ~sw.last.online

\* ------------------------------------------------------------------------
\* The prefetch followed through, with its own answers, while daily loads
\* go on and a session plays
\* ------------------------------------------------------------------------
InitPrefetch ==
    /\ now = 0
    /\ lim = [run |-> PfMaxRun, daily |-> PfMaxDaily, named |-> 0,
              ops |-> PfMaxOps, extracts |-> PfExtracts, pages |-> PfPages,
              names |-> PfTitles,
              cal |-> PlainCalendar]
    /\ store = << >>
    /\ live = NoEngine
    /\ orphans = {}
    /\ articleContent = NoArt
    /\ dom = << >>
    /\ cancelled = TRUE
    /\ speedCtl = DefaultSpeed
    /\ fg = [pc |-> "summary", kind |-> "daily", title |-> "", art |-> NoArt,
             p |-> 0, key |-> FeaturedKey]
    /\ bg = << >>
    /\ nextId = 1
    /\ loads = [daily |-> 1, named |-> 0]
    /\ ops = 0
    /\ out = << >>
    /\ act = "init"
    /\ lastRead = [NoRead EXCEPT !.key = FeaturedKey]
    /\ lastSummary = NoSummary
    /\ lastUpd = NoUpd
    /\ storage = StorageOk
    /\ parser = NoParse
    /\ sw = NoWorker
    /\ pf = << >>
    /\ rq = NoRequest

NextPrefetch ==
    \/ BeginFeatured
    \/ \E x \in lim.extracts : SummaryOk(x)
    \/ LoadFail
    \/ \E i \in DOMAIN bg, pg \in lim.pages : BgPageOk(i, pg)
    \/ \E i \in DOMAIN bg : BgPageFail(i)
    \/ DoStart
    \/ DoPause
    \/ TimerFire
    \/ Tick
    \/ \E i \in DOMAIN pf : PrefetchTimerFire(i)
    \/ \E i \in DOMAIN pf, title \in lim.names, x \in lim.extracts :
           PrefetchSummaryOk(i, title, x)
    \/ \E i \in DOMAIN pf, pg \in lim.pages : PrefetchPageOk(i, pg)
    \/ \E i \in DOMAIN pf : PrefetchFail(i)

SpecPrefetch == InitPrefetch /\ [][NextPrefetch]_vars

\* ------------------------------------------------------------------------
\* C25  The prefetch leaves the session alone
\* ------------------------------------------------------------------------
PrefetchActs == {"prefetchTimer", "prefetchSummaryOk", "prefetchPageOk",
                 "prefetchFail"}

\* the keys whose entry differs between two stores
ChangedKeys(st1, st2) ==
    {k \in DOMAIN st1 \cup DOMAIN st2 :
        \/ k \notin DOMAIN st1
        \/ k \notin DOMAIN st2
        \/ st1[k] # st2[k]}

\* C25: no step of a prefetch, whatever it fetched and whether it
\* succeeded or failed, changes the live engine, the displayed document
\* or the cancellation flag, or triggers a merge; what it changes in the
\* cache lies under tomorrow's daily key (that of the day after the day
\* on which its timeout ran) or under the named key of the article it
\* fetched.
C25_PrefetchFrame ==
    [][ act' \in PrefetchActs =>
          /\ live' = live
          /\ orphans' = orphans
          /\ articleContent' = articleContent
          /\ dom' = dom
          /\ cancelled' = cancelled
          /\ fg' = fg
          /\ bg' = bg
          /\ lastUpd' = NoUpd
          /\ out' = << >>
          /\ \E i \in DOMAIN pf :
                /\ pf'[i] # pf[i]
                /\ \A j \in DOMAIN pf \ {i} : pf'[j] = pf[j]
                /\ (pf[i].pc = "timer" /\ pf'[i].pc = "summary") =>
                       pf'[i].key = TomorrowKey
                /\ \A k \in ChangedKeys(store, store') :
                       \/ k = (IF pf[i].pc = "timer" THEN TomorrowKey
                               ELSE pf[i].key)
                       \/ \E t \in {pf[i].title, pf'[i].title} \ {""} :
                              k = <<"article", ToLowerCase(t)>>
      ]_vars

C25_Witness ==
    /\ act = "prefetchPageOk"
    /\ live.timer # NoTimer
    /\ ~cancelled
    /\ \E i \in DOMAIN bg : bg[i].st = "fetch"
    /\ TomorrowKey \in DOMAIN store
    /\ <<"article", "sun">> \in DOMAIN store

\* ------------------------------------------------------------------------
\* C26  A successful completion is cached, cancelled or not (Spec)
\* ------------------------------------------------------------------------
\* C26: when a background completion succeeds, its page is written under
\* the daily key with an expiry 24 hours after the completion time,
\* whether or not a later foreground acquisition has cancelled it; with
\* the cancellation flag set the step runs no merge and leaves the live
\* session as it was.
C26_CachedDespiteCancel ==
    [][ act' = "bgOk" =>
          /\ \A i \in DOMAIN bg :
                (bg[i].st = "fetch" /\ bg'[i].st # "fetch") =>
                   /\ bg[i].key[1] = "featured"
                   /\ bg[i].key \in DOMAIN store'
                   /\ store'[bg[i].key].writtenAt = now
                   /\ store'[bg[i].key].expiresAt = now + DailyTTL
                   /\ store'[bg[i].key].article.title = TfaTitle
                   /\ \E pg \in lim.pages :
                          store'[bg[i].key].article = Art(TfaTitle, pg)
                   /\ store'[bg[i].key].article
                          = store'[ArticleKey(TfaTitle)].article
          /\ cancelled =>
                /\ lastUpd' = NoUpd
                /\ live' = live
                /\ articleContent' = articleContent
                /\ dom' = dom
      ]_vars

C26_Witness ==
    /\ act = "bgOk"
    /\ cancelled
    /\ now > 0
    /\ FeaturedKey \in DOMAIN store
    /\ store[FeaturedKey].writtenAt = now
    /\ \E i \in DOMAIN bg : bg[i].st = "done" /\ (bg[i].supDaily \/ bg[i].supNamed)
    /\ \A i \in DOMAIN bg : bg[i].st = "done"
    /\ articleContent # store[FeaturedKey].article

\* ------------------------------------------------------------------------
\* One fetchWithTimeout call on its own, from its first attempt on
\* ------------------------------------------------------------------------
\* an attempt ends before the abort timer: with a response that is ok, with
\* one that is not, or with fetch rejecting
FetchSettles(o, d) ==
    /\ rq.pc = "attempt"
    /\ o \in Outcomes \ {"timeout"}
    /\ now' = now + d
    /\ LET r == [rq EXCEPT !.outcomes = Append(@, o)]
       IN  rq' = IF o = "ok" THEN [r EXCEPT !.pc = "returned"]
                 ELSE Catch(r, FALSE, now + d)
    /\ UNCHANGED <<store, live, orphans, articleContent, dom, cancelled,
                   speedCtl, fg, bg, nextId, loads, ops, out, act, lim,
                   lastRead, lastSummary, lastUpd, storage, parser, sw, pf>>

\* the abort timer fires FetchTimeout ms after the attempt began: fetch
\* rejects with an AbortError
FetchTimesOut ==
    /\ rq.pc = "attempt"
    /\ now' = rq.since + FetchTimeout
    /\ rq' = Catch([rq EXCEPT !.outcomes = Append(@, "timeout")], TRUE,
                   rq.since + FetchTimeout)
    /\ UNCHANGED <<store, live, orphans, articleContent, dom, cancelled,
                   speedCtl, fg, bg, nextId, loads, ops, out, act, lim,
                   lastRead, lastSummary, lastUpd, storage, parser, sw, pf>>

\* the backoff delay has passed: the loop goes on with the next attempt
BackoffOver ==
    /\ rq.pc = "backoff"
    /\ now' = rq.since + BackoffDelay(rq.attempt)
    /\ rq' = [rq EXCEPT !.pc = "attempt", !.attempt = @ + 1,
                        !.since = now',
                        !.waited = Append(@, now' - rq.since)]
    /\ UNCHANGED <<store, live, orphans, articleContent, dom, cancelled,
                   speedCtl, fg, bg, nextId, loads, ops, out, act, lim,
                   lastRead, lastSummary, lastUpd, storage, parser, sw, pf>>

InitFetch ==
    /\ InitApp
    /\ parser = NoParse
    /\ sw = NoWorker
    /\ pf = << >>
    /\ \E retries \in 0..MaxRetries :
           rq = [NoRequest EXCEPT !.pc = "attempt", !.retries = retries]

NextFetch ==
    \/ \E o \in Outcomes \ {"timeout"}, d \in Latencies : FetchSettles(o, d)
    \/ FetchTimesOut
    \/ BackoffOver

\* fetch settles or is aborted by the timer, and the timer of a backoff
\* fires: every step that is possible is eventually taken
SpecFetch == InitFetch /\ [][NextFetch]_vars /\ WF_vars(NextFetch)

\* ------------------------------------------------------------------------
\* C27  Attempts and backoff of fetchWithTimeout
\* ------------------------------------------------------------------------
Failures(r) == {k \in 1..Len(r.outcomes) : r.outcomes[k] # "ok"}

FetchSafe ==
    /\ Len(rq.outcomes) <= rq.retries + 1
    /\ \A k \in 1..(Len(rq.outcomes) - 1) : rq.outcomes[k] # "ok"
    /\ rq.pc = "returned" <=>
           (rq.outcomes # << >> /\ rq.outcomes[Len(rq.outcomes)] = "ok")
    /\ rq.pc = "threw" <=> Cardinality(Failures(rq)) = rq.retries + 1
    /\ Len(rq.waited) =
           IF rq.pc = "backoff" THEN Cardinality(Failures(rq)) - 1
           ELSE Min(Cardinality(Failures(rq)), rq.retries)
    /\ \A k \in 1..Len(rq.waited) : rq.waited[k] = 1000 * 2 ^ (k - 1)

\* C27: a call with retry count r makes at most r + 1 attempts, returns at
\* the first attempt that succeeds and makes none after it, waits
\* 1000 * 2^k ms after failed attempt k for k = 0..r-1 and does not wait
\* after the last failed attempt; whatever the attempts' outcomes it ends
\* with a response or with an error.
C27_RetriesAndBackoff ==
    /\ []FetchSafe
    /\ [][rq.pc \in {"returned", "threw"} => rq' = rq]_vars
    /\ <>(rq.pc \in {"returned", "threw"})

C27_Witness ==
    /\ rq.pc = "returned"
    /\ rq.retries = 3
    /\ Len(rq.outcomes) = 4
    /\ rq.waited = <<1000, 2000, 4000>>

\* ------------------------------------------------------------------------
\* C28  The error fetchWithTimeout raises
\* ------------------------------------------------------------------------
\* C28: after the retries are exhausted the timeout error is raised exactly
\* when every attempt timed out, and the transport/status error when the
\* attempts failed otherwise.
C28_ErrorKind ==
    rq.pc = "threw" =>
        /\ rq.error \in {"timeout", "transport"}
        /\ rq.error = "timeout" <=>
               \A k \in 1..Len(rq.outcomes) : rq.outcomes[k] = "timeout"
        /\ (\A k \in 1..Len(rq.outcomes) : rq.outcomes[k] \in {"status", "network"})
               => rq.error = "transport"

\* ------------------------------------------------------------------------
\* C29  One reveal pending at a time (SpecEngine)
\* ------------------------------------------------------------------------
\* C29: whatever start, pause, resume, stop, reset, setSpeed calls and
\* reveal ticks an engine goes through, highlightSyllable never schedules
\* a reveal while an earlier one is outstanding: when a call schedules
\* one, none was pending, and when a reveal tick schedules one, the only
\* one pending was the tick that is running.
C29_OneRevealPending ==
    [][ live'.currentIndex = live.currentIndex + 1 =>
          /\ live'.timer = now + live'.speed
          /\ IF act' = "timer"
             THEN live.timer # NoTimer /\ live.timer <= now
             ELSE act' \in {"start", "resume"} /\ live.timer = NoTimer
      ]_vars

\* resume() after a pause has scheduled the reveal of the third syllable
\* at a changed speed
C29_Witness ==
    /\ act = "resume"
    /\ live.ctl = "resumed"
    /\ live.currentIndex = 3
    /\ live.timer = now + live.speed
    /\ live.speed # DefaultSpeed

\* ------------------------------------------------------------------------
\* One session that is never stopped or reset: start, pause, resume and
\* the speed control, with the timeouts firing when they are due.  Time is
\* not made to stop at the clock bound: it always passes up to the next
\* due timeout.
\* ------------------------------------------------------------------------
\* time passes up to the next due timeout
Elapse ==
    /\ DueTimes # {}
    /\ \A t \in DueTimes : t > now
    /\ now' = CHOOSE t \in DueTimes : \A u \in DueTimes : t <= u
    /\ out' = << >>
    /\ act' = "elapse"
    /\ lastRead' = NoRead /\ lastSummary' = NoSummary /\ lastUpd' = NoUpd
    /\ UNCHANGED <<store, live, orphans, articleContent, dom, cancelled,
                   speedCtl, fg, bg, nextId, loads, ops,
                   lim, storage, parser, sw, pf, rq>>

InitLive ==
    \E n \in EngSizes :
        LET art == [title |-> TfaTitle, chars |-> 2 * n, syls |-> n,
                   blank |-> FALSE]
        IN  /\ now = 0
            /\ lim = [run |-> LiveMaxRun, daily |-> 1, named |-> 1,
                      ops |-> LiveMaxOps, extracts |-> {}, pages |-> {},
                      names |-> {},
              cal |-> PlainCalendar]
            /\ store = SetCachedItem(<< >>, ArticleKey(TfaTitle), art, NamedTTL, 0, FALSE)
            /\ live = PacingEngine(1, n, DefaultSpeed)
            /\ orphans = {}
            /\ articleContent = art
            /\ dom = <<art>>
            /\ cancelled = TRUE
            /\ speedCtl = DefaultSpeed
            /\ fg = FgIdle
            /\ bg = << >>
            /\ nextId = 2
            /\ loads = [daily |-> 0, named |-> 1]
            /\ ops = 0
            /\ out = << >>
            /\ act = "init"
            /\ lastRead = [NoRead EXCEPT !.key = ArticleKey(TfaTitle)]
            /\ lastSummary = NoSummary
            /\ lastUpd = NoUpd
            /\ storage = StorageOk
            /\ parser = NoParse
            /\ sw = NoWorker
            /\ pf = << >>
            /\ rq = NoRequest

NextLive ==
    \/ DoStart
    \/ DoPause
    \/ DoResume
    \/ \E sp \in Speeds : DoSetSpeed(sp)
    \/ TimerFire
    \/ Tick
    \/ Elapse

\* a timeout that is due runs, and time reaches the next due timeout
SpecLive ==
    InitLive /\ [][NextLive]_vars /\ WF_vars(TimerFire) /\ WF_vars(Elapse)

\* ------------------------------------------------------------------------
\* C30  A session that is always resumed runs to its end (SpecLive)
\* ------------------------------------------------------------------------
CompletedNow ==
    /\ out = <<Done(live)>>
    /\ live.currentIndex = live.n
    /\ StateOf(live) = "Idle"
    /\ live.timer = NoTimer

\* C30: if every pause is eventually followed by a resume (no stop or
\* reset occurs, and scheduled reveals fire), a session that has been
\* started eventually emits onComplete with currentIndex at the number of
\* syllables, and is then Idle with no reveal scheduled.
C30_RunsToCompletion ==
    [](StateOf(live) = "Paused" => <>(StateOf(live) # "Paused"))
        => [](live.isPlaying => <>CompletedNow)

\* a session of three syllables that was paused and resumed has completed
C30_Witness ==
    /\ CompletedNow
    /\ live.n = 3
    /\ live.ctl = "resumed"
    /\ act = "timer"

\* ------------------------------------------------------------------------
\* The daily cache hit (SpecCache)
\* ------------------------------------------------------------------------
\* C31: when loadFeaturedArticle finds a valid entry under the daily key,
\* getFeaturedArticle returns the entry's article at once: no retrieval is
\* awaited, no completion is created or attached, the cancellation flag
\* stays set, and the article returned is the one displayed; when the
\* display of an item that came without a completion finishes, no
\* completion handler runs and no merge begins.
C31_DailyHit ==
    [][/\ (act' = "loadFeatured" /\ lastRead'.hit) =>
            /\ lastRead'.key = FeaturedKey
            /\ FeaturedKey \in DOMAIN store
            /\ IsCacheValid(store[FeaturedKey], now)
            /\ fg'.pc \in {"idle", "render"}
            /\ fg'.p = 0
            /\ Len(bg') = Len(bg)
            /\ \A i \in DOMAIN bg : bg'[i].attached = bg[i].attached
                                     /\ bg'[i].st = bg[i].st
            /\ cancelled'
            /\ lastSummary' = NoSummary
            /\ lastUpd' = NoUpd
            /\ store' = store
            /\ ~store[FeaturedKey].article.blank
                  => articleContent' = store[FeaturedKey].article
            /\ fg'.pc = "render" => fg'.art = store[FeaturedKey].article
       /\ (act' = "displayed" /\ fg.p = 0) =>
            /\ bg' = bg
            /\ cancelled' = cancelled
            /\ lastUpd' = NoUpd
            /\ articleContent' = articleContent]_vars

\* the daily article has been displayed from the cache while an earlier
\* completion is still being retrieved
C31_Witness ==
    /\ act = "loadFeatured"
    /\ lastRead.hit
    /\ lastRead.key = FeaturedKey
    /\ articleContent = store[FeaturedKey].article
    /\ fg.pc = "idle"
    /\ cancelled
    /\ \E i \in DOMAIN bg : bg[i].st = "fetch"

\* ------------------------------------------------------------------------
\* C32  The rule-based fallback of syllabifyWord()
\* ------------------------------------------------------------------------
\* whether parse() hands the word to syllabifyWord(): it is neither a
\* number nor an acronym
ViaSyllabifyWord(word) ==
    /\ \E i \in 1..Len(word) : word[i] \notin Digits
    /\ ~(Len(word) >= 2 /\ \A i \in 1..Len(word) : word[i] \in UpperLetters)

\* the hyphenation capability is unavailable or throws
UsesFallback == parser.hypher \in {"none", "throws"}

\* C32: for every word that parse() hands to syllabifyWord() and
\* syllabifyWord() to the rule-based fallback, every syllable produced is
\* non-empty and the syllables concatenated are the word itself, character
\* for character, in its original letter case.
C32_FallbackPreservesWord ==
    (parser.pc = "returned" /\ UsesFallback) =>
        \A i \in 1..Len(parser.doc.wordMap) :
            LET entry == parser.doc.wordMap[i]
            IN  ViaSyllabifyWord(entry.word) =>
                    /\ \A k \in 1..Len(entry.syllables) :
                           entry.syllables[k] # << >>
                    /\ Flatten(entry.syllables) = entry.word
                    /\ Len(entry.syllables) >= 1

\* a word of mixed case has been split into two syllables or more, the
\* upper-case letter not in the first of them
C32_Witness ==
    /\ parser.pc = "returned"
    /\ parser.hypher = "throws"
    /\ \E i \in 1..Len(parser.doc.wordMap) :
           LET entry == parser.doc.wordMap[i]
           IN  /\ ViaSyllabifyWord(entry.word)
               /\ Len(entry.syllables) >= 2
               /\ \E k \in 2..Len(entry.syllables) :
                      \E c \in 1..Len(entry.syllables[k]) :
                          entry.syllables[k][c] \in UpperLetters
               /\ \E c \in 1..Len(entry.word) : entry.word[c] \in LowerLetters

\* ------------------------------------------------------------------------
\* C33  Elapsed time across a merge
\* ------------------------------------------------------------------------
\* C33: when a merge has been applied to a session that was Playing,
\* getElapsedTime() of the new session right after the merge is not less
\* than getElapsedTime() of the old session was when the merge began.
C33_ElapsedContinuous ==
    (lastUpd.kind = "merged" /\ lastUpd.cap.state = "Playing") =>
        GetElapsedTime(live, now) >= lastUpd.cap.elapsed

\* ------------------------------------------------------------------------
\* C34  Elapsed time of a session that is not Playing
\* ------------------------------------------------------------------------
\* C34: while the live session is Paused or Idle (after stop(), after
\* completion), and so has no reveal scheduled, the passing of wall-clock
\* time does not change what getElapsedTime() returns.
C34_ElapsedGrowsOnlyPlaying ==
    [][(now' > now /\ live' = live /\ StateOf(live) # "Playing"
            /\ live.timer = NoTimer)
          => GetElapsedTime(live, now') = GetElapsedTime(live, now)]_vars

\* ------------------------------------------------------------------------
\* C35  The completion of an abbreviated item that stays on display
\* ------------------------------------------------------------------------
\* a pending retrieval settles and its continuation runs
Settles ==
    \/ \E x \in lim.extracts : SummaryOk(x)
    \/ \E pg \in lim.pages : PageOk(pg)
    \/ LoadFail
    \/ \E i \in DOMAIN bg, pg \in lim.pages : BgPageOk(i, pg)
    \/ \E i \in DOMAIN bg : BgPageFail(i)

\* SpecNamed with every pending retrieval settled in the end
\* (fetchWithTimeout answers or gives up after its retries, and the
\* promise callbacks run) and with the timeout of the prefetch running
\* when it is due; the user is free to do nothing more
SpecNamedLive ==
    /\ InitNamed /\ [][NextNamed]_vars
    /\ WF_vars(Settles) /\ WF_vars(AwaitTimeout) /\ WF_vars(PrefetchSteps)

\* the abbreviated daily item is on display and its completion pending
AbbreviatedShown ==
    /\ bg # << >>
    /\ bg[Len(bg)].st = "fetch"
    /\ articleContent = bg[Len(bg)].extract
    /\ Shown = articleContent
    /\ live.n = articleContent.syls

\* the complete content has been merged and is the live session
CompleteInstalled ==
    /\ lastUpd.kind = "merged"
    /\ live.n = lastUpd.N
    /\ articleContent.syls = live.n
    /\ Shown = articleContent
    /\ articleContent.chars > ExtractThreshold

\* the ways out the property allows: the background retrieval failed, the
\* complete content was less than 20% longer, or another article was
\* displayed in place of the abbreviated item
CompletionExcused ==
    \/ act = "bgFail"
    \/ lastUpd.kind \in {"discarded", "empty"}
    \/ act = "pageOk"
    \/ act = "loadByTitle" /\ lastRead.hit
    \/ act = "loadFeatured"

\* C35: whenever an abbreviated daily item is on display with its
\* completion pending, then, unless the background retrieval fails, brings
\* less than 20% more syllables, or other content is displayed in its
\* place, the complete content is eventually installed as the live
\* session; a named acquisition that fails in between is no excuse.
C35_CompletionInstalled ==
    [](AbbreviatedShown => <>(CompleteInstalled \/ CompletionExcused))

\* ------------------------------------------------------------------------
\* C36  onComplete once per run
\* ------------------------------------------------------------------------
\* C36: once the live engine has emitted onComplete, so that its
\* currentIndex equals the number of its syllables, a start() or resume()
\* that is not preceded by a reset() emits no notification: no second
\* onComplete.
C36_CompleteOnce ==
    [][(/\ \E j \in 1..Len(out) : out[j] = Done(live)
        /\ live.currentIndex = live.n
        /\ act' \in {"start", "resume"}
        /\ live'.id = live.id)
          => out' = << >>]_vars

\* ------------------------------------------------------------------------
\* C37  What is stored under a daily key
\* ------------------------------------------------------------------------
DailyKeys(st) == {k \in DOMAIN st : k[1] = "featured"}
NamedKeys(st) == {k \in DOMAIN st : k[1] = "article"}

\* C37: whenever the entry under a daily key is written, the step is a
\* summary longer than 800 characters being returned (the payload is that
\* summary), a background or prefetch page retrieval succeeding (the
\* payload is the page it also stores under the named key), or a summary
\* whose page the named cache already held (the payload is that page);
\* entries under named keys are written by successful page retrievals
\* only; so no abbreviated item is ever stored under a daily key, and a
\* hit of the daily cache creates no completion.
C37_DailyPayload ==
    [][/\ \A k \in DailyKeys(store') \cap ChangedKeys(store, store') :
            \/ /\ act' \in {"summaryOk", "prefetchSummaryOk"}
               /\ store'[k].article.chars > ExtractThreshold
               /\ act' = "summaryOk" =>
                      /\ store'[k].article = lastSummary'.returned
                      /\ ~lastSummary'.promise
            \/ /\ act' \in {"bgOk", "prefetchPageOk"}
               /\ \E q \in NamedKeys(store') :
                      /\ store'[q].article = store'[k].article
                      /\ store'[q].writtenAt = now
            \/ /\ act' \in {"summaryOk", "prefetchSummaryOk"}
               /\ lastRead'.hit
               /\ lastRead'.key \in NamedKeys(store)
               /\ store'[k].article = store[lastRead'.key].article
       /\ \A q \in NamedKeys(store') \cap ChangedKeys(store, store') :
            act' \in {"pageOk", "bgOk", "prefetchPageOk"}
       /\ (act' = "loadFeatured" /\ lastRead'.hit) => Len(bg') = Len(bg)
      ]_vars

\* an abbreviated summary has been returned and displayed, its completion
\* has succeeded, and the daily key holds the page, not the summary
C37_Witness ==
    /\ act = "bgOk"
    /\ FeaturedKey \in DOMAIN store
    /\ store[FeaturedKey].writtenAt = now
    /\ store[FeaturedKey].article.chars > ExtractThreshold
    /\ \E i \in DOMAIN bg : bg[i].st = "done" /\ bg[i].ran

\* ------------------------------------------------------------------------
\* C38  A merge never shortens the live document
\* ------------------------------------------------------------------------
\* C38: whenever a merge has been applied over a live session of C > 0
\* syllables, the new session has at least C + 1 syllables, and if a
\* Playing or Paused session was captured the position assigned to the new
\* session is the captured currentIndex itself: the clamp changed nothing.
C38_MergeNeverShortens ==
    lastUpd.kind = "merged" =>
        /\ (lastUpd.before.id # 0 /\ lastUpd.before.n > 0)
              => live.n >= lastUpd.before.n + 1
        /\ lastUpd.cap.state \in {"Playing", "Paused"}
              => lastUpd.restored.currentIndex = lastUpd.cap.currentIndex

\* ------------------------------------------------------------------------
\* C39  resume() reveals at once
\* ------------------------------------------------------------------------
\* C39: a resume() that finds the live engine Paused reveals within the
\* call: below the end of the text it emits onSyllableChange for
\* currentIndex, advances currentIndex by one and schedules the next
\* reveal a full interval later; at the end of the text it completes.  A
\* pause() leaves currentIndex alone, so a pause()/resume() pair advances
\* the position by one syllable however far into the interval the pause
\* came.
C39_ResumeReveals ==
    [][/\ (act' = "resume" /\ live.isPaused) =>
            IF live.currentIndex < live.n
            THEN /\ out' = <<Syl(live, live.currentIndex)>>
                 /\ live'.currentIndex = live.currentIndex + 1
                 /\ live'.timer = now + live.speed
                 /\ StateOf(live') = "Playing"
            ELSE /\ out' = <<Done(live)>>
                 /\ live'.currentIndex = live.currentIndex
                 /\ live'.timer = NoTimer
                 /\ StateOf(live') = "Idle"
       /\ act' = "pause" =>
            /\ live'.currentIndex = live.currentIndex
            /\ out' = << >>]_vars

\* a session paused in the middle of an interval has been resumed after a
\* while and has revealed its next syllable in the call
C39_Witness ==
    /\ act = "resume"
    /\ live.ctl = "resumed"
    /\ live.frozen % live.speed # 0
    /\ now > live.pausedAt
    /\ Len(out) = 1
    /\ out[1] = Syl(live, live.currentIndex - 1)
    /\ live.timer = now + live.speed

\* ------------------------------------------------------------------------
\* A named acquisition of another article while the completion of the
\* abbreviated daily item is merged
\* ------------------------------------------------------------------------
InitCross ==
    /\ now = 0
    /\ lim = [run |-> CrsMaxRun, daily |-> 1, named |-> CrsMaxNamed,
              ops |-> CrsMaxOps, extracts |-> CrsExtracts, pages |-> CrsPages,
              names |-> CrsNames,
              cal |-> PlainCalendar]
    /\ store = << >>
    /\ live = NoEngine
    /\ orphans = {}
    /\ articleContent = NoArt
    /\ dom = << >>
    /\ cancelled = TRUE
    /\ speedCtl = DefaultSpeed
    /\ fg = [pc |-> "summary", kind |-> "daily", title |-> "", art |-> NoArt,
             p |-> 0, key |-> FeaturedKey]
    /\ bg = << >>
    /\ nextId = 1
    /\ loads = [daily |-> 1, named |-> 0]
    /\ ops = 0
    /\ out = << >>
    /\ act = "init"
    /\ lastRead = [NoRead EXCEPT !.key = FeaturedKey]
    /\ lastSummary = NoSummary
    /\ lastUpd = NoUpd
    /\ storage = StorageOk
    /\ parser = NoParse
    /\ sw = NoWorker
    /\ pf = << >>
    /\ rq = NoRequest

NextCross ==
    \/ \E x \in lim.extracts : SummaryOk(x)
    \/ LoadFail
    \/ \E name \in lim.names : BeginNamed(name)
    \/ \E pg \in lim.pages : PageOk(pg)
    \/ DisplayRendered
    \/ \E i \in DOMAIN bg, pg \in lim.pages : BgPageOk(i, pg)
    \/ \E i \in DOMAIN bg : BgPageFail(i)
    \/ \E i \in DOMAIN bg : MergeRendered(i)
    \/ DoStart
    \/ DoPause
    \/ TimerFire
    \/ OrphanTimerFire
    \/ Tick

SpecCross == InitCross /\ [][NextCross]_vars

\* ------------------------------------------------------------------------
\* C40  A foreground load that crosses a merge suspended in rendering
\* ------------------------------------------------------------------------
\* C40: when a merge that was suspended in renderSyllablesAsync while a
\* foreground load went through displayArticle has finished, and the
\* foreground load has finished too, the live engine has the syllables of
\* the article the foreground load displayed and articleContent is that
\* article.
C40_ForegroundWins ==
    (lastUpd.kind = "merged" /\ lastUpd.crossed # NoArt /\ fg.pc = "idle") =>
        /\ live.n = lastUpd.crossed.syls
        /\ articleContent = lastUpd.crossed

====
